---- MODULE Spec2Model ----
(***************************************************************************)
(* The liquid-handling command compiler of the protocol designer: the      *)
(* compound command creator `distribute`, the atomic command creators it   *)
(* curries, and the result accumulator (reduceCommandCreators) that        *)
(* threads the robot state through them.                                   *)
(*                                                                         *)
(* Volumes are in scaled units (the fixture's 300 uL pipette is            *)
(* PipetteMaxVol units).  Wells are numbered by column: the source well A1 *)
(* is 1, the destination wells A2, A3, ... are 2, 3, ...; tip-rack wells   *)
(* are numbered in rack order (A1 = 1, B1 = 2, ...).                       *)
(***************************************************************************)
EXTENDS Integers, Sequences, FiniteSets, TLC

VARIABLES
    args,             \* the DistributeArgs of the call
    prevRobotState,   \* the robot state the call was given
    commandCreators,  \* the curried command creators distribute built
    cursor,           \* index of the next curried creator to reduce
    robotState,       \* the accumulator's current robot state
    commands,         \* the accumulator's commands so far
    origin,           \* per command: the chunk and template step that made it
    result,           \* what distribute returned
    pc,               \* "call", "reduce" or "done"; "idle" when no call is made
    positions,        \* SelectionRect: this.state.positions
    isSelecting,      \* SelectionRect: this.state.isSelecting
    mounted,          \* SelectionRect, and the plate around it, are mounted
    listeners,        \* the document's event types bound to SelectionRect
    mouse,            \* history of the mouse: button down, start, last point
    called,           \* the props callbacks the last handler invoked
    pipetteChannels,  \* SelectablePlate: this.props.pipetteChannels
    containerType,    \* SelectablePlate: this.props.containerType
    selectedWells,    \* SelectablePlate: this.state.selectedWells
    highlightedWells, \* SelectablePlate: this.state.highlightedWells
    reported          \* the last selection passed to props.updateSelectedWells

(* the state of one call of distribute *)
callVars == <<args, prevRobotState, commandCreators, cursor, robotState,
              commands, origin, result, pc>>

(* the state of a SelectionRect, of the document and of the mouse *)
rectVars == <<positions, isSelecting, mounted, listeners, mouse, called>>

(* the state of a SelectablePlate and of its parent *)
plateVars == <<pipetteChannels, containerType, selectedWells,
               highlightedWells, reported>>

vars == <<args, prevRobotState, commandCreators, cursor, robotState,
          commands, origin, result, pc,
          positions, isSelecting, mounted, listeners, mouse, called,
          pipetteChannels, containerType, selectedWells, highlightedWells,
          reported>>

---------------------------------------------------------------------------
(* Bounds of the model *)

MaxWells == 3
MaxVolume == 2
MaxDisposal == 2
MaxTips == 3
MixTimes == 2
PipetteMaxVol == 3

(* Fixture values *)

NULL == -1
DEFAULT_PIPETTE == "p300SingleId"
SOURCE_LABWARE == "sourcePlateId"
DEST_LABWARE == "destPlateId"
FIXED_TRASH_ID == "trashId"
TIPRACK == "tiprack1Id"
NONE == "none"

SourceWell == 1
DestWells(n) == [i \in 1..n |-> i + 1]

---------------------------------------------------------------------------
(* Static context: the pipette registry *)

makeContext == [pipettes |-> {DEFAULT_PIPETTE}, maxVolume |-> PipetteMaxVol]

PipetteExists(ctx, pipette) == pipette \in ctx.pipettes

(* The wells whose liquid is tracked: the source well and every well a     *)
(* destination list can name                                               *)
WellSpace ==
    {<<SOURCE_LABWARE, SourceWell>>}
    \cup {<<DEST_LABWARE, w>> : w \in 2..(MaxWells + 1)}

(* What the wells hold at the start of a call is not known; the liquids   *)
(* of a state are kept as the volume each well has gained (lost, when      *)
(* below 0) since the state the call was given.                            *)
NoLiquidMoved == [lw \in WellSpace |-> 0]

(* Robot state: does the pipette hold a tip; which tip-rack wells still    *)
(* hold a tip; the liquid of each well against its volume at the start.    *)
RobotState(hasTip, consumed) ==
    [tips |-> hasTip, tiprack |-> [w \in 1..MaxTips |-> w > consumed],
     liquids |-> NoLiquidMoved]

wellVolume(state, labware, well) == state.liquids[<<labware, well>>]

getRobotStateWithTipStandard == RobotState(TRUE, 0)
getRobotInitialStateNoTipsRemain == RobotState(FALSE, MaxTips)

---------------------------------------------------------------------------
(* Commands and results *)

Command(name, labware, well, volume, wait) ==
    [command |-> name, labware |-> labware, well |-> well,
     volume |-> volume, wait |-> wait]

Error(type) == [type |-> type]

Ok(cmds, state) == [ok |-> TRUE, commands |-> cmds, robotState |-> state,
                    errors |-> <<>>]
Fail(type) == [ok |-> FALSE, commands |-> <<>>, errors |-> <<Error(type)>>]

---------------------------------------------------------------------------
(* Atomic command creators: (params, context, robot state) -> one command  *)
(* and the next robot state, or an error.                                  *)

(* Variant: aspirate does not look for a tip *)
aspirateWithoutTipCheck(p, ctx, state) ==
    IF ~PipetteExists(ctx, p.pipette) THEN Fail("PIPETTE_DOES_NOT_EXIST")
    ELSE IF p.volume > ctx.maxVolume THEN Fail("PIPETTE_VOLUME_EXCEEDED")
    ELSE Ok(<<Command("aspirate", p.labware, p.well, p.volume, 0)>>,
            [state EXCEPT !.liquids[<<p.labware, p.well>>] = @ - p.volume])

(* aspirate: the well's volume goes down by the volume drawn *)
aspirate(p, ctx, state) ==
    IF ~PipetteExists(ctx, p.pipette) THEN Fail("PIPETTE_DOES_NOT_EXIST")
    ELSE IF ~state.tips THEN Fail("INSUFFICIENT_TIPS")
    ELSE IF p.volume > ctx.maxVolume THEN Fail("PIPETTE_VOLUME_EXCEEDED")
    ELSE Ok(<<Command("aspirate", p.labware, p.well, p.volume, 0)>>,
            [state EXCEPT !.liquids[<<p.labware, p.well>>] = @ - p.volume])

(* dispense: the well's volume goes up by the volume dispensed *)
dispense(p, ctx, state) ==
    IF ~PipetteExists(ctx, p.pipette) THEN Fail("PIPETTE_DOES_NOT_EXIST")
    ELSE IF ~state.tips THEN Fail("INSUFFICIENT_TIPS")
    ELSE Ok(<<Command("dispense", p.labware, p.well, p.volume, 0)>>,
            [state EXCEPT !.liquids[<<p.labware, p.well>>] = @ + p.volume])

(* Variant: the air gap is booked as liquid drawn from the well *)
airGapDrawsLiquid(p, ctx, state) ==
    IF ~PipetteExists(ctx, p.pipette) THEN Fail("PIPETTE_DOES_NOT_EXIST")
    ELSE IF ~state.tips THEN Fail("INSUFFICIENT_TIPS")
    ELSE IF p.volume > ctx.maxVolume THEN Fail("PIPETTE_VOLUME_EXCEEDED")
    ELSE Ok(<<Command("airGap", p.labware, p.well, p.volume, 0)>>,
            [state EXCEPT !.liquids[<<p.labware, p.well>>] = @ - p.volume])

airGap(p, ctx, state) ==
    IF ~PipetteExists(ctx, p.pipette) THEN Fail("PIPETTE_DOES_NOT_EXIST")
    ELSE IF ~state.tips THEN Fail("INSUFFICIENT_TIPS")
    ELSE IF p.volume > ctx.maxVolume THEN Fail("PIPETTE_VOLUME_EXCEEDED")
    ELSE Ok(<<Command("airGap", p.labware, p.well, p.volume, 0)>>, state)

dispenseAirGap(p, ctx, state) ==
    IF ~PipetteExists(ctx, p.pipette) THEN Fail("PIPETTE_DOES_NOT_EXIST")
    ELSE IF ~state.tips THEN Fail("INSUFFICIENT_TIPS")
    ELSE Ok(<<Command("dispenseAirGap", p.labware, p.well, p.volume, 0)>>,
            state)

delay(p, ctx, state) ==
    Ok(<<Command("delay", NONE, 0, 0, p.wait)>>, state)

moveToWell(p, ctx, state) ==
    IF ~PipetteExists(ctx, p.pipette) THEN Fail("PIPETTE_DOES_NOT_EXIST")
    ELSE Ok(<<Command("moveToWell", p.labware, p.well, 0, 0)>>, state)

touchTip(p, ctx, state) ==
    IF ~PipetteExists(ctx, p.pipette) THEN Fail("PIPETTE_DOES_NOT_EXIST")
    ELSE IF ~state.tips THEN Fail("INSUFFICIENT_TIPS")
    ELSE Ok(<<Command("touchTip", p.labware, p.well, 0, 0)>>, state)

blowout(p, ctx, state) ==
    IF ~PipetteExists(ctx, p.pipette) THEN Fail("PIPETTE_DOES_NOT_EXIST")
    ELSE IF ~state.tips THEN Fail("INSUFFICIENT_TIPS")
    ELSE Ok(<<Command("blowout", p.labware, p.well, 0, 0)>>, state)

(* Variant: a drop-tip is emitted whether or not a tip is held *)
dropTipAlways(p, ctx, state) ==
    Ok(<<Command("dropTip", FIXED_TRASH_ID, 1, 0, 0)>>,
       [state EXCEPT !.tips = FALSE])

(* dropTip: a no-op when the pipette holds no tip *)
dropTip(p, ctx, state) ==
    IF ~state.tips THEN Ok(<<>>, state)
    ELSE Ok(<<Command("dropTip", FIXED_TRASH_ID, 1, 0, 0)>>,
            [state EXCEPT !.tips = FALSE])

(* The next tip in rack order; 0 when none remains *)
getNextTiprack(state) ==
    IF \E w \in DOMAIN state.tiprack : state.tiprack[w]
    THEN CHOOSE w \in DOMAIN state.tiprack :
             /\ state.tiprack[w]
             /\ \A v \in DOMAIN state.tiprack : state.tiprack[v] => w <= v
    ELSE 0

(* Variant: the pick-up does not mark the rack well consumed *)
pickUpTipLeavesWellAvailable(p, ctx, state) ==
    IF p.well \notin DOMAIN state.tiprack \/ ~state.tiprack[p.well]
    THEN Fail("INSUFFICIENT_TIPS")
    ELSE Ok(<<Command("pickUpTip", TIPRACK, p.well, 0, 0)>>,
            [state EXCEPT !.tips = TRUE])

pickUpTip(p, ctx, state) ==
    IF p.well \notin DOMAIN state.tiprack \/ ~state.tiprack[p.well]
    THEN Fail("INSUFFICIENT_TIPS")
    ELSE Ok(<<Command("pickUpTip", TIPRACK, p.well, 0, 0)>>,
            [state EXCEPT !.tips = TRUE, !.tiprack[p.well] = FALSE])

(* Variant: the tip change picks up the next tip before it drops the held  *)
(* one                                                                     *)
replaceTipPickUpThenDrop(p, ctx, state) ==
    LET next == getNextTiprack(state)
        dropped == dropTip(p, ctx, state)
        picked == pickUpTip([p EXCEPT !.well = next], ctx, dropped.robotState)
    IN  IF next = 0 THEN Fail("INSUFFICIENT_TIPS")
        ELSE IF ~picked.ok THEN picked
        ELSE Ok(picked.commands \o dropped.commands, picked.robotState)

(* Variant: with the rack empty the tip change carries on with what the    *)
(* pipette holds                                                           *)
replaceTipKeepsTipWhenRackEmpty(p, ctx, state) ==
    LET next == getNextTiprack(state)
        dropped == dropTip(p, ctx, state)
        picked == pickUpTip([p EXCEPT !.well = next], ctx, dropped.robotState)
    IN  IF next = 0 THEN Ok(<<>>, state)
        ELSE IF ~picked.ok THEN picked
        ELSE Ok(dropped.commands \o picked.commands, picked.robotState)

(* replaceTip: drop the held tip (if any), then pick up the next one *)
replaceTip(p, ctx, state) ==
    LET next == getNextTiprack(state)
        dropped == dropTip(p, ctx, state)
        picked == pickUpTip([p EXCEPT !.well = next], ctx, dropped.robotState)
    IN  IF next = 0 THEN Fail("INSUFFICIENT_TIPS")
        ELSE IF ~picked.ok THEN picked
        ELSE Ok(dropped.commands \o picked.commands, picked.robotState)

(* A curried command creator: the creator's name and its arguments, with   *)
(* the chunk and the template step of distribute that built it.            *)
curryCommandCreator(name, chunk, step, pipette, labware, well, volume, wait) ==
    [creator |-> name, chunk |-> chunk, step |-> step, pipette |-> pipette,
     labware |-> labware, well |-> well, volume |-> volume, wait |-> wait]

ApplyCreator(cc, ctx, state) ==
    CASE cc.creator = "aspirate" -> aspirate(cc, ctx, state)
      [] cc.creator = "dispense" -> dispense(cc, ctx, state)
      [] cc.creator = "airGap" -> airGap(cc, ctx, state)
      [] cc.creator = "dispenseAirGap" -> dispenseAirGap(cc, ctx, state)
      [] cc.creator = "delay" -> delay(cc, ctx, state)
      [] cc.creator = "moveToWell" -> moveToWell(cc, ctx, state)
      [] cc.creator = "touchTip" -> touchTip(cc, ctx, state)
      [] cc.creator = "blowout" -> blowout(cc, ctx, state)
      [] cc.creator = "replaceTip" -> replaceTip(cc, ctx, state)

---------------------------------------------------------------------------
(* The compound command creator distribute *)

RECURSIVE flatten(_)
flatten(seqs) ==
    IF seqs = <<>> THEN <<>> ELSE Head(seqs) \o flatten(Tail(seqs))

(* Variant: the uneven slice comes first instead of last *)
RECURSIVE chunkUnevenFirst(_, _)
chunkUnevenFirst(array, size) ==
    IF array = <<>> \/ size < 1 THEN <<>>
    ELSE IF Len(array) <= size THEN <<array>>
    ELSE LET r == IF Len(array) % size = 0 THEN size ELSE Len(array) % size
         IN  <<SubSeq(array, 1, r)>>
                 \o chunkUnevenFirst(SubSeq(array, r + 1, Len(array)), size)

(* chunk(array, size): consecutive slices of `size` elements, the last one *)
(* holding what remains.                                                   *)
RECURSIVE chunk(_, _)
chunk(array, size) ==
    IF array = <<>> \/ size < 1 THEN <<>>
    ELSE IF Len(array) <= size THEN <<array>>
    ELSE <<SubSeq(array, 1, size)>>
             \o chunk(SubSeq(array, size + 1, Len(array)), size)

disposalVolumeOf(a) ==
    IF a.disposalVolume > 0 THEN a.disposalVolume ELSE 0

aspirateAirGapVolumeOf(a) ==
    IF a.aspirateAirGapVolume > 0 THEN a.aspirateAirGapVolume ELSE 0


(* Variant: the air gap is not counted against the capacity *)
maxVolumePerChunkWithoutAirGap(a, ctx) ==
    ctx.maxVolume - disposalVolumeOf(a)

(* What one chunk's dispenses may add up to: the pipette's capacity less   *)
(* the disposal volume and the air gap carried with it.                    *)
maxVolumePerChunk(a, ctx) ==
    ctx.maxVolume - aspirateAirGapVolumeOf(a) - disposalVolumeOf(a)

(* Variant: a chunk stops one well short of what the pipette could carry *)
maxWellsPerChunkOneShort(a, ctx) ==
    IF a.volume = 0
    THEN (IF Len(a.destWells) = 0 THEN 1 ELSE Len(a.destWells))
    ELSE IF maxVolumePerChunk(a, ctx) \div a.volume > 1
         THEN (maxVolumePerChunk(a, ctx) \div a.volume) - 1
         ELSE maxVolumePerChunk(a, ctx) \div a.volume

maxWellsPerChunk(a, ctx) ==
    IF a.volume = 0
    THEN (IF Len(a.destWells) = 0 THEN 1 ELSE Len(a.destWells))
    ELSE maxVolumePerChunk(a, ctx) \div a.volume


(* Variant: the per-well volume is compared with the bare capacity *)
volumeExceededBareCapacity(a, ctx) == a.volume > ctx.maxVolume

(* Variant: the mix volume is held against the chunk capacity as well *)
volumeExceededCountsMix(a, ctx) ==
    \/ a.volume > maxVolumePerChunk(a, ctx)
    \/ /\ a.mixBeforeAspirate.set
       /\ a.mixBeforeAspirate.volume > maxVolumePerChunk(a, ctx)

volumeExceeded(a, ctx) == a.volume > maxVolumePerChunk(a, ctx)


(* Variant: "always" changes the tip before the first chunk only *)
tipCommandsAlwaysAsOnce(a, k) ==
    IF k = 1 /\ (a.changeTip = "always" \/ a.changeTip = "once")
    THEN <<curryCommandCreator("replaceTip", k, "tip", a.pipette,
                               NONE, 0, 0, 0)>>
    ELSE <<>>

(* Variant: "once" changes the tip before every chunk *)
tipCommandsOnceAsAlways(a, k) ==
    IF a.changeTip = "always" \/ a.changeTip = "once"
    THEN <<curryCommandCreator("replaceTip", k, "tip", a.pipette,
                               NONE, 0, 0, 0)>>
    ELSE <<>>

(* Variant: "never" still changes the tip before the first chunk *)
tipCommandsNeverAsOnce(a, k) ==
    IF a.changeTip = "always" \/ k = 1
    THEN <<curryCommandCreator("replaceTip", k, "tip", a.pipette,
                               NONE, 0, 0, 0)>>
    ELSE <<>>

tipCommands(a, k) ==
    IF a.changeTip = "always" \/ (a.changeTip = "once" /\ k = 1)
    THEN <<curryCommandCreator("replaceTip", k, "tip", a.pipette,
                               NONE, 0, 0, 0)>>
    ELSE <<>>

mixUtil(a, k) ==
    LET one ==
            <<curryCommandCreator("aspirate", k, "mixAspirate", a.pipette,
                  a.sourceLabware, a.sourceWell, a.mixBeforeAspirate.volume, 0)>>
            \o (IF a.aspirateDelay.set
                THEN <<curryCommandCreator("delay", k, "mixAspirateDelay",
                           a.pipette, NONE, 0, 0, a.aspirateDelay.seconds)>>
                ELSE <<>>)
            \o <<curryCommandCreator("dispense", k, "mixDispense", a.pipette,
                  a.sourceLabware, a.sourceWell, a.mixBeforeAspirate.volume, 0)>>
            \o (IF a.dispenseDelay.set
                THEN <<curryCommandCreator("delay", k, "mixDispenseDelay",
                           a.pipette, NONE, 0, 0, a.dispenseDelay.seconds)>>
                ELSE <<>>)
    IN  flatten([t \in 1..a.mixBeforeAspirate.times |-> one])

(* Variant: only the first chunk mixes *)
mixBeforeAspirateFirstChunkOnly(a, k) ==
    IF a.mixBeforeAspirate.set /\ k = 1 THEN mixUtil(a, k) ELSE <<>>

mixBeforeAspirateCommands(a, k) ==
    IF a.mixBeforeAspirate.set THEN mixUtil(a, k) ELSE <<>>


(* Variant: every chunk aspirates for a full chunk, also an uneven last one *)
aspirateCommandFullChunk(a, k, destWellChunk) ==
    <<curryCommandCreator("aspirate", k, "aspirate", a.pipette,
          a.sourceLabware, a.sourceWell,
          a.volume * maxWellsPerChunk(a, makeContext) + disposalVolumeOf(a),
          0)>>


(* Variant: the aspirate leaves the disposal volume out *)
aspirateCommandNoDisposal(a, k, destWellChunk) ==
    <<curryCommandCreator("aspirate", k, "aspirate", a.pipette,
          a.sourceLabware, a.sourceWell, a.volume * Len(destWellChunk), 0)>>

aspirateCommand(a, k, destWellChunk) ==
    <<curryCommandCreator("aspirate", k, "aspirate", a.pipette,
          a.sourceLabware, a.sourceWell,
          a.volume * Len(destWellChunk) + disposalVolumeOf(a), 0)>>

(* Variant: the delay after the aspirate is a plain delay, without the     *)
(* move to the well                                                        *)
delayAfterAspirateWithoutMove(a, k) ==
    IF a.aspirateDelay.set
    THEN <<curryCommandCreator("delay", k, "aspirateDelay", a.pipette,
               NONE, 0, 0, a.aspirateDelay.seconds)>>
    ELSE <<>>

(* delayWithOffset: move to the well at the delay's height, then wait *)
delayAfterAspirateCommands(a, k) ==
    IF a.aspirateDelay.set
    THEN <<curryCommandCreator("moveToWell", k, "aspirateDelayMove",
               a.pipette, a.sourceLabware, a.sourceWell, 0, 0),
           curryCommandCreator("delay", k, "aspirateDelay", a.pipette,
               NONE, 0, 0, a.aspirateDelay.seconds)>>
    ELSE <<>>

touchTipAfterAspirateCommand(a, k) ==
    IF a.touchTipAfterAspirate
    THEN <<curryCommandCreator("touchTip", k, "touchTipAfterAspirate",
               a.pipette, a.sourceLabware, a.sourceWell, 0, 0)>>
    ELSE <<>>

(* Variant: the air gap is dispensed at the last well of the chunk *)
airGapDispensedAtLastWell(a, k, destWellChunk) ==
    IF a.aspirateAirGapVolume > 0
    THEN <<curryCommandCreator("airGap", k, "airGap", a.pipette,
               a.sourceLabware, a.sourceWell, a.aspirateAirGapVolume, 0)>>
         \o (IF a.aspirateDelay.set
             THEN <<curryCommandCreator("delay", k, "airGapDelay", a.pipette,
                        NONE, 0, 0, a.aspirateDelay.seconds)>>
             ELSE <<>>)
         \o <<curryCommandCreator("dispenseAirGap", k, "dispenseAirGap",
               a.pipette, a.destLabware, destWellChunk[Len(destWellChunk)],
               a.aspirateAirGapVolume, 0)>>
         \o (IF a.dispenseDelay.set
             THEN <<curryCommandCreator("delay", k, "dispenseAirGapDelay",
                        a.pipette, NONE, 0, 0, a.dispenseDelay.seconds)>>
             ELSE <<>>)
    ELSE <<>>

(* Variant: the delay after the dispense of the air gap follows the        *)
(* aspirate delay                                                          *)
airGapDispenseDelayFromAspirateDelay(a, k, destWellChunk) ==
    IF a.aspirateAirGapVolume > 0
    THEN <<curryCommandCreator("airGap", k, "airGap", a.pipette,
               a.sourceLabware, a.sourceWell, a.aspirateAirGapVolume, 0)>>
         \o (IF a.aspirateDelay.set
             THEN <<curryCommandCreator("delay", k, "airGapDelay", a.pipette,
                        NONE, 0, 0, a.aspirateDelay.seconds)>>
             ELSE <<>>)
         \o <<curryCommandCreator("dispenseAirGap", k, "dispenseAirGap",
               a.pipette, a.destLabware, destWellChunk[1],
               a.aspirateAirGapVolume, 0)>>
         \o (IF a.aspirateDelay.set
             THEN <<curryCommandCreator("delay", k, "dispenseAirGapDelay",
                        a.pipette, NONE, 0, 0, a.aspirateDelay.seconds)>>
             ELSE <<>>)
    ELSE <<>>

(* Variant: the delay after the dispense of the air gap moves to the well  *)
(* first, as the delay after a main dispense does                          *)
airGapDispenseDelayWithOffset(a, k, destWellChunk) ==
    IF a.aspirateAirGapVolume > 0
    THEN <<curryCommandCreator("airGap", k, "airGap", a.pipette,
               a.sourceLabware, a.sourceWell, a.aspirateAirGapVolume, 0)>>
         \o (IF a.aspirateDelay.set
             THEN <<curryCommandCreator("delay", k, "airGapDelay", a.pipette,
                        NONE, 0, 0, a.aspirateDelay.seconds)>>
             ELSE <<>>)
         \o <<curryCommandCreator("dispenseAirGap", k, "dispenseAirGap",
               a.pipette, a.destLabware, destWellChunk[1],
               a.aspirateAirGapVolume, 0)>>
         \o (IF a.dispenseDelay.set
             THEN <<curryCommandCreator("moveToWell", k, "dispenseAirGapDelay",
                        a.pipette, a.destLabware, destWellChunk[1], 0, 0),
                    curryCommandCreator("delay", k, "dispenseAirGapDelay",
                        a.pipette, NONE, 0, 0, a.dispenseDelay.seconds)>>
             ELSE <<>>)
    ELSE <<>>

airGapAfterAspirateCommands(a, k, destWellChunk) ==
    IF a.aspirateAirGapVolume > 0
    THEN <<curryCommandCreator("airGap", k, "airGap", a.pipette,
               a.sourceLabware, a.sourceWell, a.aspirateAirGapVolume, 0)>>
         \o (IF a.aspirateDelay.set
             THEN <<curryCommandCreator("delay", k, "airGapDelay", a.pipette,
                        NONE, 0, 0, a.aspirateDelay.seconds)>>
             ELSE <<>>)
         \o <<curryCommandCreator("dispenseAirGap", k, "dispenseAirGap",
               a.pipette, a.destLabware, destWellChunk[1],
               a.aspirateAirGapVolume, 0)>>
         \o (IF a.dispenseDelay.set
             THEN <<curryCommandCreator("delay", k, "dispenseAirGapDelay",
                        a.pipette, NONE, 0, 0, a.dispenseDelay.seconds)>>
             ELSE <<>>)
    ELSE <<>>

(* Variant: the tip is touched before the delay after the dispense *)
dispenseCommandsForWellTouchFirst(a, k, destWell) ==
    <<curryCommandCreator("dispense", k, "dispense", a.pipette,
          a.destLabware, destWell, a.volume, 0)>>
    \o (IF a.touchTipAfterDispense
        THEN <<curryCommandCreator("touchTip", k, "touchTipAfterDispense",
                   a.pipette, a.destLabware, destWell, 0, 0)>>
        ELSE <<>>)
    \o (IF a.dispenseDelay.set
        THEN <<curryCommandCreator("moveToWell", k, "dispenseDelayMove",
                   a.pipette, a.destLabware, destWell, 0, 0),
               curryCommandCreator("delay", k, "dispenseDelay", a.pipette,
                   NONE, 0, 0, a.dispenseDelay.seconds)>>
        ELSE <<>>)

dispenseCommandsForWell(a, k, destWell) ==
    <<curryCommandCreator("dispense", k, "dispense", a.pipette,
          a.destLabware, destWell, a.volume, 0)>>
    \o (IF a.dispenseDelay.set
        THEN <<curryCommandCreator("moveToWell", k, "dispenseDelayMove",
                   a.pipette, a.destLabware, destWell, 0, 0),
               curryCommandCreator("delay", k, "dispenseDelay", a.pipette,
                   NONE, 0, 0, a.dispenseDelay.seconds)>>
        ELSE <<>>)
    \o (IF a.touchTipAfterDispense
        THEN <<curryCommandCreator("touchTip", k, "touchTipAfterDispense",
                   a.pipette, a.destLabware, destWell, 0, 0)>>
        ELSE <<>>)


(* Variant: the wells of a chunk are served last to first *)
dispenseCommandsReversed(a, k, destWellChunk) ==
    flatten([i \in 1..Len(destWellChunk) |->
                 dispenseCommandsForWell(a, k,
                     destWellChunk[Len(destWellChunk) + 1 - i])])

(* Variant: the tip is touched only after the last well of a chunk *)
dispenseCommandsTouchLastWellOnly(a, k, destWellChunk) ==
    flatten([i \in 1..Len(destWellChunk) |->
                 dispenseCommandsForWell(
                     [a EXCEPT !.touchTipAfterDispense =
                                   a.touchTipAfterDispense
                                   /\ i = Len(destWellChunk)],
                     k, destWellChunk[i])])

dispenseCommands(a, k, destWellChunk) ==
    flatten([i \in 1..Len(destWellChunk) |->
                 dispenseCommandsForWell(a, k, destWellChunk[i])])


(* Variant: a blow-out whenever a disposal volume is given, also 0 *)
blowoutCommandsWhenGiven(a, k) ==
    IF a.disposalVolume # NULL
    THEN <<curryCommandCreator("blowout", k, "blowout", a.pipette,
               a.disposalLabware, a.disposalWell, 0, 0)>>
    ELSE <<>>

blowoutCommands(a, k) ==
    IF disposalVolumeOf(a) > 0
    THEN <<curryCommandCreator("blowout", k, "blowout", a.pipette,
               a.disposalLabware, a.disposalWell, 0, 0)>>
    ELSE <<>>

(* Variant: the air gap is taken before the tip is touched at the source *)
chunkCommandCreatorsAirGapBeforeTouchTip(a, k, destWellChunk) ==
    tipCommands(a, k)
    \o mixBeforeAspirateCommands(a, k)
    \o aspirateCommand(a, k, destWellChunk)
    \o delayAfterAspirateCommands(a, k)
    \o airGapAfterAspirateCommands(a, k, destWellChunk)
    \o touchTipAfterAspirateCommand(a, k)
    \o dispenseCommands(a, k, destWellChunk)
    \o blowoutCommands(a, k)

(* Variant: the tip is touched at the source before the delay after the    *)
(* main aspirate                                                           *)
chunkCommandCreatorsTouchTipBeforeDelay(a, k, destWellChunk) ==
    tipCommands(a, k)
    \o mixBeforeAspirateCommands(a, k)
    \o aspirateCommand(a, k, destWellChunk)
    \o touchTipAfterAspirateCommand(a, k)
    \o delayAfterAspirateCommands(a, k)
    \o airGapAfterAspirateCommands(a, k, destWellChunk)
    \o dispenseCommands(a, k, destWellChunk)
    \o blowoutCommands(a, k)

(* Variant: the source is mixed after the main aspirate *)
chunkCommandCreatorsMixAfterAspirate(a, k, destWellChunk) ==
    tipCommands(a, k)
    \o aspirateCommand(a, k, destWellChunk)
    \o mixBeforeAspirateCommands(a, k)
    \o delayAfterAspirateCommands(a, k)
    \o touchTipAfterAspirateCommand(a, k)
    \o airGapAfterAspirateCommands(a, k, destWellChunk)
    \o dispenseCommands(a, k, destWellChunk)
    \o blowoutCommands(a, k)

(* Variant: with the pre-wet flag set the tip is wetted at the source, one  *)
(* aspirate and dispense of the per-well volume, before the main aspirate  *)
chunkCommandCreatorsWithPreWet(a, k, destWellChunk) ==
    tipCommands(a, k)
    \o (IF a.preWetTip
        THEN <<curryCommandCreator("aspirate", k, "mixAspirate", a.pipette,
                   a.sourceLabware, a.sourceWell, a.volume, 0),
               curryCommandCreator("dispense", k, "mixDispense", a.pipette,
                   a.sourceLabware, a.sourceWell, a.volume, 0)>>
        ELSE <<>>)
    \o mixBeforeAspirateCommands(a, k)
    \o aspirateCommand(a, k, destWellChunk)
    \o delayAfterAspirateCommands(a, k)
    \o touchTipAfterAspirateCommand(a, k)
    \o airGapAfterAspirateCommands(a, k, destWellChunk)
    \o dispenseCommands(a, k, destWellChunk)
    \o blowoutCommands(a, k)

(* The curried creators of chunk k (1-based), in template order *)
chunkCommandCreators(a, k, destWellChunk) ==
    tipCommands(a, k)
    \o mixBeforeAspirateCommands(a, k)
    \o aspirateCommand(a, k, destWellChunk)
    \o delayAfterAspirateCommands(a, k)
    \o touchTipAfterAspirateCommand(a, k)
    \o airGapAfterAspirateCommands(a, k, destWellChunk)
    \o dispenseCommands(a, k, destWellChunk)
    \o blowoutCommands(a, k)

(* The creators of every chunk, chunk after chunk (the per-chunk lists are *)
(* built once, then concatenated)                                          *)
distributeCommandCreators(a, ctx) ==
    LET chunks == chunk(a.destWells, maxWellsPerChunk(a, ctx))
        perChunk == [k \in 1..Len(chunks) |->
                        chunkCommandCreators(a, k, chunks[k])]
    IN  CHOOSE creators \in {flatten(built) : built \in {perChunk}} : TRUE

---------------------------------------------------------------------------
(* The inputs of a call *)

MixSpace ==
    {[set |-> FALSE, times |-> 0, volume |-> 0],
     [set |-> TRUE, times |-> MixTimes, volume |-> 1]}

DelaySpace(seconds) ==
    {[set |-> FALSE, seconds |-> 0], [set |-> TRUE, seconds |-> seconds]}

(* No disposal volume, or 0..MaxDisposal blown out into the trash (the     *)
(* largest one into the source well instead), or a disposal volume that    *)
(* takes the whole pipette.                                                *)
DisposalSpace ==
    {[volume |-> NULL, labware |-> NONE, well |-> 0]}
    \cup {[volume |-> d,
           labware |-> IF d = MaxDisposal THEN SOURCE_LABWARE
                       ELSE FIXED_TRASH_ID,
           well |-> 1] : d \in 0..MaxDisposal}
    \cup {[volume |-> PipetteMaxVol, labware |-> FIXED_TRASH_ID, well |-> 1]}

DistributeArgs(pip, n, vol, tip, disp, mix, aDel, dDel, gap, ttA, ttD, wet) ==
    [pipette |-> pip,
     sourceLabware |-> SOURCE_LABWARE, sourceWell |-> SourceWell,
     destLabware |-> DEST_LABWARE, destWells |-> DestWells(n),
     volume |-> vol, changeTip |-> tip,
     disposalVolume |-> disp.volume,
     disposalLabware |-> disp.labware, disposalWell |-> disp.well,
     mixBeforeAspirate |-> mix,
     aspirateDelay |-> aDel, dispenseDelay |-> dDel,
     aspirateAirGapVolume |-> gap,
     touchTipAfterAspirate |-> ttA, touchTipAfterDispense |-> ttD,
     preWetTip |-> wet]

(* Calls with a known pipette: every combination of the optional           *)
(* sub-behaviours.  Calls with an unknown pipette: what could compete with *)
(* the missing pipette (volume, disposal, tip policy).                     *)
ArgsSpace ==
    {DistributeArgs(DEFAULT_PIPETTE, n, v, ct, d, m, ad, dd, ag, ta, td, FALSE) :
        n \in 0..MaxWells, v \in 0..MaxVolume,
        ct \in {"never", "once", "always"}, d \in DisposalSpace,
        m \in MixSpace, ad \in DelaySpace(11), dd \in DelaySpace(12),
        ag \in {NULL, 1}, ta \in BOOLEAN, td \in BOOLEAN}
    \cup
    {DistributeArgs("no-such-pipette-id-here", n, v, ct, d,
                    [set |-> FALSE, times |-> 0, volume |-> 0],
                    [set |-> FALSE, seconds |-> 0],
                    [set |-> FALSE, seconds |-> 0], NULL, FALSE, FALSE, FALSE) :
        n \in 0..MaxWells, v \in 0..MaxVolume,
        ct \in {"never", "once", "always"}, d \in DisposalSpace}

(* The pipette holds a tip or not; the rack is full, holds one last tip,   *)
(* or is empty.                                                            *)
RobotStateSpace ==
    {RobotState(t, c) : t \in BOOLEAN, c \in {0, MaxTips - 1, MaxTips}}

NoResult == [kind |-> "none", commands |-> <<>>, errors |-> <<>>]
Success(cmds, state) ==
    [kind |-> "success", commands |-> cmds, errors |-> <<>>,
     robotState |-> state]

(* Variant: a failure that hands back the commands accumulated so far *)
FailureKeepingCommands(errs) ==
    [kind |-> "failure", commands |-> commands, errors |-> errs]

Failure(errs) == [kind |-> "failure", commands |-> <<>>, errors |-> errs]

---------------------------------------------------------------------------
(* SelectionRect: the rectangle a mouse drag draws over its children.      *)
(* Mouse coordinates are the points of a small grid.                       *)

MaxCoord == 2

Coords == 0..MaxCoord

(* the mouse events SelectionRect handles: it reads the point and hands    *)
(* the event on; the shift key is up                                       *)
MouseEvents == [clientX : Coords, clientY : Coords, shiftKey : {FALSE}]

(* this.state.positions of a component with no selection in progress: null *)
NullPositions ==
    [xStart |-> NULL, xDynamic |-> NULL, yStart |-> NULL, yDynamic |-> NULL]

DocumentListeners == {"mousemove", "mouseup"}

(* the mouse before any event: is the button down, where it went down,    *)
(* the last point of the drag since, and the last event                    *)
NoMouse ==
    [pressed |-> FALSE, start |-> <<NULL, NULL>>, last |-> <<NULL, NULL>>,
     event |-> "none"]

Min(a, b) == IF a <= b THEN a ELSE b

Max(a, b) == IF a >= b THEN a ELSE b

(* getRect: the rectangle of a start point and a dynamic point, its        *)
(* corners in order                                                        *)
getRect(p) ==
    [x0 |-> Min(p.xStart, p.xDynamic), x1 |-> Max(p.xStart, p.xDynamic),
     y0 |-> Min(p.yStart, p.yDynamic), y1 |-> Max(p.yStart, p.yDynamic)]

(* the constructor: nothing selected, both handlers bound to the document; *)
(* the component is then mounted                                           *)
SelectionRectConstructor ==
    /\ positions = NullPositions
    /\ isSelecting = FALSE
    /\ listeners = DocumentListeners
    /\ mounted = TRUE
    /\ mouse = NoMouse
    /\ called = <<>>

(* no SelectionRect was constructed *)
NoSelectionRect ==
    /\ positions = NullPositions
    /\ isSelecting = FALSE
    /\ listeners = {}
    /\ mounted = FALSE
    /\ mouse = NoMouse
    /\ called = <<>>

(* this.setState of React: the update is merged into the state of a        *)
(* mounted component; on an unmounted component it does nothing            *)
setState(nextPositions, nextIsSelecting) ==
    IF mounted
    THEN /\ positions' = nextPositions
         /\ isSelecting' = nextIsSelecting
    ELSE UNCHANGED <<positions, isSelecting>>

(* a call of a props callback with the event and a rectangle *)
Call(callback, e, rect) ==
    [callback |-> callback, shiftKey |-> e.shiftKey, rect |-> rect]

handleMouseDown(e) ==
    /\ setState([xStart |-> e.clientX, xDynamic |-> e.clientX,
                 yStart |-> e.clientY, yDynamic |-> e.clientY], TRUE)
    /\ called' = <<>>

(* Variant: the drag drags the start point along *)
handleDragMovesStart(e) ==
    LET nextRect == [positions EXCEPT !.xStart = e.clientX,
                                      !.xDynamic = e.clientX,
                                      !.yDynamic = e.clientY]
    IN  /\ setState(nextRect, isSelecting)
        /\ called' = <<Call("onSelectionMove", e, getRect(nextRect))>>

handleDrag(e) ==
    LET nextRect == [positions EXCEPT !.xDynamic = e.clientX,
                                      !.yDynamic = e.clientY]
    IN  /\ setState(nextRect, isSelecting)
        /\ called' = <<Call("onSelectionMove", e, getRect(nextRect))>>

handleMouseMove(e) ==
    IF isSelecting
    THEN handleDrag(e)
    ELSE /\ UNCHANGED <<positions, isSelecting>>
         /\ called' = <<>>

(* handleMouseUp returns at once on an event that is no MouseEvent *)
handleMouseUp(e, isMouseEvent) ==
    IF ~isMouseEvent
    THEN /\ UNCHANGED <<positions, isSelecting>>
         /\ called' = <<>>
    ELSE LET finalRect == IF positions # NullPositions
                          THEN <<getRect(positions)>>
                          ELSE <<>>
         IN  /\ setState(NullPositions, FALSE)
             /\ called' = [i \in 1..Len(finalRect) |->
                               Call("onSelectionDone", e, finalRect[i])]

(* componentWillUnmount calls document.addEventListener for both handlers; *)
(* adding a listener that is bound already leaves it bound                 *)
componentWillUnmount ==
    listeners' = listeners \cup DocumentListeners

---------------------------------------------------------------------------
(* SelectablePlate: a plate whose wells are selected by dragging a         *)
(* SelectionRect over them.  A well is named by its column and row; the    *)
(* plate is PlateCols columns of PlateRows wells, the well of column c and *)
(* row r drawn at the grid point (c, r).  The wells of a column stand for  *)
(* the eight wells an 8-channel pipette reaches at once.                   *)

PlateCols == 2

PlateRows == 2

PlateWells == {<<c, r>> : c \in 1..PlateCols, r \in 1..PlateRows}

(* the key that a WellContents object used as a property name turns into *)
ObjectKey == <<0, 0>>

(* a plate of columns an 8-channel pipette fits, and a rack it does not *)
ContainerTypes == {"96-flat", "tube-rack-2ml"}

Channels == {1, 8}

(* the rectangles a SelectionRect passes to its callbacks: in order, over  *)
(* the plate and a margin of one grid line to its left                     *)
Rects ==
    {getRect(p) : p \in [xStart : 0..PlateCols, xDynamic : 0..PlateCols,
                         yStart : 1..PlateRows, yDynamic : 1..PlateRows]}

(* the events handed to the plate's handlers, which read the shift key *)
ShiftEvents == [clientX : {0}, clientY : {0}, shiftKey : BOOLEAN]

(* getCollidingWells: the selectable wells whose drawing the rectangle     *)
(* touches                                                                 *)
getCollidingWells(rect) ==
    {w \in PlateWells : /\ rect.x0 <= w[1] /\ w[1] <= rect.x1
                        /\ rect.y0 <= w[2] /\ w[2] <= rect.y1}

(* getWellSetForMultichannel: the wells an 8-channel pipette reaches       *)
(* together with the given well, top row first; none (null) on a           *)
(* container it does not fit                                               *)
getWellSetForMultichannel(type, well) ==
    IF type = "96-flat" /\ well \in PlateWells
    THEN [r \in 1..PlateRows |-> <<well[1], r>>]
    ELSE <<>>

(* the reduce of _wellsFromSelected over the keys not yet visited *)
RECURSIVE reducePrimaryWells(_, _, _)
reducePrimaryWells(keys, acc, type) ==
    IF keys = {}
    THEN acc
    ELSE LET well == CHOOSE k \in keys : TRUE
             wellSet == getWellSetForMultichannel(type, well)
         IN  IF wellSet = <<>>
             THEN reducePrimaryWells(keys \ {well}, acc, type)
             ELSE reducePrimaryWells(keys \ {well}, acc \cup {wellSet[1]}, type)

(* _wellsFromSelected: with an 8-channel pipette every well stands for the *)
(* primary well of its well set                                            *)
wellsFromSelected(wells) ==
    IF pipetteChannels = 8
    THEN reducePrimaryWells(wells, {}, containerType)
    ELSE wells

(* _getWellsFromRect *)
getWellsFromRect(rect) ==
    wellsFromSelected(getCollidingWells(rect))

(* the constructor: the highlighted wells of props.wellContents are folded *)
(* into one object keyed by the well's contents, not by its name           *)
SelectablePlateConstructor ==
    /\ pipetteChannels \in Channels
    /\ containerType \in ContainerTypes
    /\ \E anyHighlighted \in BOOLEAN :
          selectedWells = IF anyHighlighted THEN {ObjectKey} ELSE {}
    /\ highlightedWells = {}
    /\ reported = <<>>

(* no SelectablePlate was constructed *)
NoSelectablePlate ==
    /\ pipetteChannels = NULL
    /\ containerType = ""
    /\ selectedWells = {}
    /\ highlightedWells = {}
    /\ reported = <<>>

(* this.setState of the plate: like that of SelectionRect, it changes the *)
(* state of a mounted component only                                       *)
setPlateState(nextSelectedWells, nextHighlightedWells) ==
    IF mounted
    THEN /\ selectedWells' = nextSelectedWells
         /\ highlightedWells' = nextHighlightedWells
    ELSE UNCHANGED <<selectedWells, highlightedWells>>

handleSelectionMove(e, rect) ==
    /\ IF ~e.shiftKey
       THEN setPlateState(selectedWells, getWellsFromRect(rect))
       ELSE UNCHANGED <<selectedWells, highlightedWells>>
    /\ UNCHANGED reported

(* handleSelectionDone; `reported` keeps the argument of the last call of  *)
(* props.updateSelectedWells, which is made whether or not the state       *)
(* changed                                                                 *)
handleSelectionDone(e, rect) ==
    LET wells == getWellsFromRect(rect)
        nextSelectedWells == IF e.shiftKey
                             THEN selectedWells \ wells
                             ELSE selectedWells \cup wells
    IN  /\ setPlateState(nextSelectedWells, {})
        /\ reported' = <<nextSelectedWells>>

---------------------------------------------------------------------------
(* The state machine of one call *)

Init ==
    /\ args \in ArgsSpace
    /\ prevRobotState \in RobotStateSpace
    /\ commandCreators = <<>>
    /\ cursor = 1
    /\ robotState = prevRobotState
    /\ commands = <<>>
    /\ origin = <<>>
    /\ result = NoResult
    /\ pc = "call"
    /\ NoSelectionRect
    /\ NoSelectablePlate

(* distribute bails out before anything else when the pipette is unknown *)
DistributePipetteDoesNotExist ==
    /\ pc = "call"
    /\ ~PipetteExists(makeContext, args.pipette)
    /\ result' = Failure(<<Error("PIPETTE_DOES_NOT_EXIST")>>)
    /\ pc' = "done"
    /\ UNCHANGED <<args, prevRobotState, commandCreators, cursor, robotState,
                   commands, origin>>
    /\ UNCHANGED <<rectVars, plateVars>>

(* Variant: the volume check does not wait for the pipette check *)
DistributeVolumeExceededFirst ==
    /\ pc = "call"
    /\ volumeExceeded(args, makeContext)
    /\ result' = Failure(<<Error("PIPETTE_VOLUME_EXCEEDED")>>)
    /\ pc' = "done"
    /\ UNCHANGED <<args, prevRobotState, commandCreators, cursor, robotState,
                   commands, origin>>
    /\ UNCHANGED <<rectVars, plateVars>>

(* the per-well volume does not fit a chunk *)
DistributeVolumeExceeded ==
    /\ pc = "call"
    /\ PipetteExists(makeContext, args.pipette)
    /\ volumeExceeded(args, makeContext)
    /\ result' = Failure(<<Error("PIPETTE_VOLUME_EXCEEDED")>>)
    /\ pc' = "done"
    /\ UNCHANGED <<args, prevRobotState, commandCreators, cursor, robotState,
                   commands, origin>>
    /\ UNCHANGED <<rectVars, plateVars>>

(* distribute builds the curried creators of every chunk and hands them to *)
(* reduceCommandCreators                                                   *)
DistributeBuild ==
    /\ pc = "call"
    /\ PipetteExists(makeContext, args.pipette)
    /\ ~volumeExceeded(args, makeContext)
    /\ commandCreators' = distributeCommandCreators(args, makeContext)
    /\ pc' = "reduce"
    /\ UNCHANGED <<args, prevRobotState, cursor, robotState, commands,
                   origin, result>>
    /\ UNCHANGED <<rectVars, plateVars>>

(* Variant: every creator is run on the state the chain started from *)
ReduceStepFromInitialState ==
    /\ pc = "reduce"
    /\ cursor <= Len(commandCreators)
    /\ LET cc == commandCreators[cursor]
           r == ApplyCreator(cc, makeContext, prevRobotState)
       IN  /\ r.ok
           /\ commands' = commands \o r.commands
           /\ origin' = origin \o [i \in 1..Len(r.commands) |->
                                       [chunk |-> cc.chunk, step |-> cc.step]]
           /\ robotState' = r.robotState
    /\ cursor' = cursor + 1
    /\ UNCHANGED <<args, prevRobotState, commandCreators, result, pc>>
    /\ UNCHANGED <<rectVars, plateVars>>

(* reduceCommandCreators: the next creator succeeds *)
ReduceStep ==
    /\ pc = "reduce"
    /\ cursor <= Len(commandCreators)
    /\ LET cc == commandCreators[cursor]
           r == ApplyCreator(cc, makeContext, robotState)
       IN  /\ r.ok
           /\ commands' = commands \o r.commands
           /\ origin' = origin \o [i \in 1..Len(r.commands) |->
                                       [chunk |-> cc.chunk, step |-> cc.step]]
           /\ robotState' = r.robotState
    /\ cursor' = cursor + 1
    /\ UNCHANGED <<args, prevRobotState, commandCreators, result, pc>>
    /\ UNCHANGED <<rectVars, plateVars>>

(* reduceCommandCreators: the next creator fails; the errors are returned  *)
(* and nothing else                                                        *)
ReduceError ==
    /\ pc = "reduce"
    /\ cursor <= Len(commandCreators)
    /\ LET r == ApplyCreator(commandCreators[cursor], makeContext, robotState)
       IN  /\ ~r.ok
           /\ result' = Failure(r.errors)
    /\ pc' = "done"
    /\ UNCHANGED <<args, prevRobotState, commandCreators, cursor, robotState,
                   commands, origin>>
    /\ UNCHANGED <<rectVars, plateVars>>

(* reduceCommandCreators: every creator succeeded *)
ReduceDone ==
    /\ pc = "reduce"
    /\ cursor > Len(commandCreators)
    /\ result' = Success(commands, robotState)
    /\ pc' = "done"
    /\ UNCHANGED <<args, prevRobotState, commandCreators, cursor, robotState,
                   commands, origin>>
    /\ UNCHANGED <<rectVars, plateVars>>

Next ==
    \/ DistributePipetteDoesNotExist
    \/ DistributeVolumeExceeded
    \/ DistributeBuild
    \/ ReduceStep
    \/ ReduceError
    \/ ReduceDone

Spec == Init /\ [][Next]_vars

(* Calls with the options the calls above hold fixed: the pre-wet flag set *)
(* or not, and a mix volume from 1 to one above the pipette's capacity.    *)
(* The delays come both or neither, the touch-tips likewise; the pipette   *)
(* starts with a tip, or without one and a full rack.                      *)
WideArgsSpace ==
    {[a EXCEPT !.preWetTip = wet,
               !.mixBeforeAspirate.volume =
                   IF a.mixBeforeAspirate.set THEN mixVolume ELSE 0] :
        a \in {b \in ArgsSpace :
                  /\ b.aspirateDelay.set = b.dispenseDelay.set
                  /\ b.touchTipAfterAspirate = b.touchTipAfterDispense},
        wet \in BOOLEAN, mixVolume \in 1..(PipetteMaxVol + 1)}

WideRobotStateSpace == {getRobotStateWithTipStandard, RobotState(FALSE, 0)}

WideInit ==
    /\ args \in WideArgsSpace
    /\ prevRobotState \in WideRobotStateSpace
    /\ commandCreators = <<>>
    /\ cursor = 1
    /\ robotState = prevRobotState
    /\ commands = <<>>
    /\ origin = <<>>
    /\ result = NoResult
    /\ pc = "call"
    /\ NoSelectionRect
    /\ NoSelectablePlate

WideSpec == WideInit /\ [][Next]_vars

---------------------------------------------------------------------------
(* A SelectionRect under the mouse *)

(* no call of distribute is made *)
NoCall ==
    /\ args = <<>>
    /\ prevRobotState = <<>>
    /\ commandCreators = <<>>
    /\ cursor = 1
    /\ robotState = <<>>
    /\ commands = <<>>
    /\ origin = <<>>
    /\ result = NoResult
    /\ pc = "idle"

PointOf(e) == <<e.clientX, e.clientY>>

(* the button goes down on the rendered element: React calls               *)
(* handleMouseDown, which it does only while the element is mounted        *)
MouseDown ==
    /\ mounted
    /\ \E e \in MouseEvents :
          /\ handleMouseDown(e)
          /\ mouse' = [pressed |-> TRUE, start |-> PointOf(e),
                       last |-> PointOf(e), event |-> "mousedown"]
    /\ UNCHANGED <<mounted, listeners>>
    /\ UNCHANGED <<callVars, plateVars>>

(* the mouse moves: the document calls the mousemove listener, if bound *)
MouseMove ==
    /\ \E e \in MouseEvents :
          /\ IF "mousemove" \in listeners
             THEN handleMouseMove(e)
             ELSE /\ UNCHANGED <<positions, isSelecting>>
                  /\ called' = <<>>
          /\ mouse' = [mouse EXCEPT
                          !.last = IF mouse.pressed THEN PointOf(e) ELSE @,
                          !.event = "mousemove"]
    /\ UNCHANGED <<mounted, listeners>>
    /\ UNCHANGED <<callVars, plateVars>>

(* a mouseup event reaches the document: a MouseEvent when the button goes *)
(* up, or an event of another class dispatched under that name             *)
MouseUp ==
    /\ \E e \in MouseEvents, isMouseEvent \in BOOLEAN :
          /\ IF "mouseup" \in listeners
             THEN handleMouseUp(e, isMouseEvent)
             ELSE /\ UNCHANGED <<positions, isSelecting>>
                  /\ called' = <<>>
          /\ mouse' = IF isMouseEvent
                      THEN [mouse EXCEPT !.pressed = FALSE, !.event = "mouseup"]
                      ELSE [mouse EXCEPT !.event = "other"]
    /\ UNCHANGED <<mounted, listeners>>
    /\ UNCHANGED <<callVars, plateVars>>

(* React unmounts the component and calls componentWillUnmount first *)
Unmount ==
    /\ mounted
    /\ componentWillUnmount
    /\ mounted' = FALSE
    /\ called' = <<>>
    /\ UNCHANGED <<positions, isSelecting, mouse>>
    /\ UNCHANGED <<callVars, plateVars>>

RectInit ==
    /\ NoCall
    /\ SelectionRectConstructor
    /\ NoSelectablePlate

RectNext ==
    \/ MouseDown
    \/ MouseMove
    \/ MouseUp
    \/ Unmount

RectSpec == RectInit /\ [][RectNext]_vars

---------------------------------------------------------------------------
(* A SelectablePlate under the callbacks of the SelectionRect it renders:  *)
(* the rectangle's own state is left out here, its callbacks arrive in any *)
(* order, with any event and any rectangle it can pass.  The plate and its *)
(* rectangle are unmounted together; the rectangle's handlers stay bound   *)
(* to the document, so its callbacks keep arriving afterwards.             *)

(* the rectangle's mousemove listener runs and calls onSelectionMove *)
SelectionMove ==
    /\ "mousemove" \in listeners
    /\ \E e \in ShiftEvents, rect \in Rects :
          /\ handleSelectionMove(e, rect)
          /\ called' = <<Call("onSelectionMove", e, rect)>>
    /\ UNCHANGED <<pipetteChannels, containerType>>
    /\ UNCHANGED <<positions, isSelecting, mounted, listeners, mouse>>
    /\ UNCHANGED callVars

(* the rectangle's mouseup listener runs and calls onSelectionDone *)
SelectionDone ==
    /\ "mouseup" \in listeners
    /\ \E e \in ShiftEvents, rect \in Rects :
          /\ handleSelectionDone(e, rect)
          /\ called' = <<Call("onSelectionDone", e, rect)>>
    /\ UNCHANGED <<pipetteChannels, containerType>>
    /\ UNCHANGED <<positions, isSelecting, mounted, listeners, mouse>>
    /\ UNCHANGED callVars

PlateInit ==
    /\ NoCall
    /\ SelectionRectConstructor
    /\ SelectablePlateConstructor

PlateNext ==
    \/ SelectionMove
    \/ SelectionDone
    \/ Unmount

PlateSpec == PlateInit /\ [][PlateNext]_vars

---------------------------------------------------------------------------
(* Reading a finished call *)

Done == pc = "done"
Succeeded == pc = "done" /\ result.kind = "success"
Failed == pc = "done" /\ result.kind = "failure"

(* The chunks that emitted commands, and the commands of chunk k *)
Chunks == {origin[i].chunk : i \in DOMAIN origin}
InChunk(k) == {i \in DOMAIN origin : origin[i].chunk = k}
FirstOf(k) == CHOOSE i \in InChunk(k) : \A j \in InChunk(k) : i <= j
LastOf(k) == CHOOSE i \in InChunk(k) : \A j \in InChunk(k) : j <= i
LastChunk == CHOOSE k \in Chunks : \A j \in Chunks : j <= k

IsCommand(i, name) == commands[i].command = name

(* A main dispense: a dispense into the destination labware *)
IsMainDispense(i) ==
    IsCommand(i, "dispense") /\ commands[i].labware = args.destLabware
MainDispenses(k) == {i \in InChunk(k) : IsMainDispense(i)}
ChunkSize(k) == Cardinality(MainDispenses(k))

(* The main aspirate: the aspirate that the chunk's aspirate step emitted *)
MainAspirates(k) ==
    {i \in InChunk(k) : IsCommand(i, "aspirate") /\ origin[i].step = "aspirate"}

CountIn(S, name) == Cardinality({i \in S : IsCommand(i, name)})

RECURSIVE SumVolume(_)
SumVolume(S) ==
    IF S = {} THEN 0
    ELSE LET i == CHOOSE j \in S : TRUE
         IN  commands[i].volume + SumVolume(S \ {i})

---------------------------------------------------------------------------
(* C1: every finished distribute call is exactly one of Success, carrying  *)
(* the instructions and no errors, or Failure, carrying at least one error *)
(* and zero instructions, wherever in the chunk sequence the failure came. *)
C1_SuccessOrFailure ==
    /\ ~Done => result = NoResult
    /\ Done =>
        \/ /\ result.kind = "success"
           /\ result.errors = <<>>
           /\ result.commands = commands
        \/ /\ result.kind = "failure"
           /\ Len(result.errors) >= 1
           /\ result.commands = <<>>

(* a failure in a chunk after the first, with instructions already made *)
C1_Witness ==
    /\ Failed
    /\ commands # <<>>
    /\ cursor <= Len(commandCreators)
    /\ commandCreators[cursor].chunk > 1

(* C2: in a successful distribute every chunk fits the pipette             *)
(* (chunkSize * volume + disposalVolume <= pipette max volume), and only   *)
(* the last chunk may hold fewer wells: the earlier ones are equal.        *)
C2_ChunkSize ==
    Succeeded =>
        /\ \A k \in Chunks :
               ChunkSize(k) * args.volume + disposalVolumeOf(args)
                   <= makeContext.maxVolume
        /\ \A k, j \in Chunks :
               k < j => /\ ChunkSize(j) <= ChunkSize(k)
                        /\ j # LastChunk => ChunkSize(j) = ChunkSize(k)

(* three chunks, the last one smaller, or two with an uneven last one *)
C2_Witness ==
    /\ Succeeded
    /\ Cardinality(Chunks) >= 2
    /\ ChunkSize(LastChunk) < ChunkSize(1)
    /\ disposalVolumeOf(args) > 0

(* C3: in a successful distribute the main dispenses visit the             *)
(* destination wells in the order of the input list, one dispense of the   *)
(* per-well volume each, across chunk boundaries.                          *)
C3_DispenseOrder ==
    Succeeded =>
        LET main == SelectSeq(result.commands,
                        LAMBDA c : c.command = "dispense"
                                   /\ c.labware = args.destLabware)
        IN  /\ Len(main) = Len(args.destWells)
            /\ \A i \in DOMAIN main :
                   /\ main[i].well = args.destWells[i]
                   /\ main[i].volume = args.volume

(* all wells served, over more than one chunk, one of them of two wells *)
C3_Witness ==
    /\ Succeeded
    /\ Len(args.destWells) = MaxWells
    /\ Cardinality(Chunks) >= 2
    /\ \E k \in Chunks : ChunkSize(k) >= 2

(* C4: every chunk holds exactly one main aspirate, from the source well,  *)
(* of chunkSize * volume + disposalVolume, chunkSize being the number of   *)
(* wells of that chunk (an uneven last chunk aspirates its own amount).    *)
C4_MainAspirate ==
    Succeeded =>
        \A k \in Chunks :
            /\ Cardinality(MainAspirates(k)) = 1
            /\ \A i \in MainAspirates(k) :
                   /\ commands[i].labware = args.sourceLabware
                   /\ commands[i].well = args.sourceWell
                   /\ commands[i].volume =
                          ChunkSize(k) * args.volume + disposalVolumeOf(args)
                   /\ \A j \in MainDispenses(k) : i < j

(* an uneven last chunk with a disposal volume *)
C4_Witness ==
    /\ Succeeded
    /\ Cardinality(Chunks) >= 2
    /\ ChunkSize(LastChunk) < ChunkSize(1)
    /\ disposalVolumeOf(args) > 0
    /\ args.volume > 0
    /\ \E i \in MainAspirates(LastChunk) :
           commands[i].volume = args.volume + disposalVolumeOf(args)

(* The drop-tip / pick-up-tip pairs of a set of commands *)
IsTipPairAt(i) ==
    /\ i \in DOMAIN commands /\ IsCommand(i, "dropTip")
    /\ i + 1 \in DOMAIN commands /\ IsCommand(i + 1, "pickUpTip")
NoTipCommandsIn(S) ==
    CountIn(S, "dropTip") = 0 /\ CountIn(S, "pickUpTip") = 0

(* C5: with changeTip "always" and a tip held initially, a successful      *)
(* distribute drops and picks up a tip exactly once per chunk, right       *)
(* before the chunk's first aspirate, and nowhere else.                    *)
C5_AlwaysOnePairPerChunk ==
    (Succeeded /\ args.changeTip = "always" /\ prevRobotState.tips) =>
        /\ \A k \in Chunks :
               /\ IsTipPairAt(FirstOf(k))
               /\ FirstOf(k) + 2 \in InChunk(k)
               /\ IsCommand(FirstOf(k) + 2, "aspirate")
               /\ CountIn(InChunk(k), "dropTip") = 1
               /\ CountIn(InChunk(k), "pickUpTip") = 1
        /\ CountIn(DOMAIN commands, "dropTip") = Cardinality(Chunks)
        /\ CountIn(DOMAIN commands, "pickUpTip") = Cardinality(Chunks)
        /\ Cardinality(Chunks)
               = Len(chunk(args.destWells,
                           maxWellsPerChunk(args, makeContext)))

(* three chunks, each with its own tip *)
C5_Witness ==
    /\ Succeeded /\ args.changeTip = "always" /\ prevRobotState.tips
    /\ Cardinality(Chunks) = MaxWells
    /\ CountIn(DOMAIN commands, "pickUpTip") = MaxWells

(* C6 as claimed: with changeTip "once" and a tip held initially, every    *)
(* successful distribute holds exactly one drop + pick-up pair, before the *)
(* first aspirate, and none later.                                         *)
C6_OnceOnePair_AsClaimed ==
    (Succeeded /\ args.changeTip = "once" /\ prevRobotState.tips) =>
        /\ CountIn(DOMAIN commands, "dropTip") = 1
        /\ CountIn(DOMAIN commands, "pickUpTip") = 1
        /\ IsTipPairAt(1)
        /\ 3 \in DOMAIN commands /\ IsCommand(3, "aspirate")

(* C6 amended: with changeTip "once", a tip held initially and at least    *)
(* one destination well, a successful distribute holds exactly one         *)
(* drop + pick-up pair, before the first chunk's first aspirate; later     *)
(* chunks hold none.  With no destination well there is no chunk and no    *)
(* tip change.                                                             *)
C6_OnceOnePair ==
    (Succeeded /\ args.changeTip = "once" /\ prevRobotState.tips) =>
        IF Len(args.destWells) = 0
        THEN commands = <<>>
        ELSE /\ CountIn(DOMAIN commands, "dropTip") = 1
             /\ CountIn(DOMAIN commands, "pickUpTip") = 1
             /\ IsTipPairAt(1)
             /\ origin[1].chunk = 1 /\ origin[2].chunk = 1
             /\ 3 \in InChunk(1) /\ IsCommand(3, "aspirate")
             /\ \A k \in Chunks \ {1} : NoTipCommandsIn(InChunk(k))

(* several chunks sharing the one tip picked up before the first *)
C6_Witness ==
    /\ Succeeded /\ args.changeTip = "once" /\ prevRobotState.tips
    /\ Cardinality(Chunks) = MaxWells
    /\ CountIn(DOMAIN commands, "pickUpTip") = 1

(* C7: with changeTip "never" no drop-tip and no pick-up-tip is emitted,   *)
(* however many chunks, and the tip and tip-rack state stay as given.      *)
C7_NeverNoTipChange ==
    args.changeTip = "never" =>
        /\ NoTipCommandsIn(DOMAIN commands)
        /\ robotState.tips = prevRobotState.tips
        /\ robotState.tiprack = prevRobotState.tiprack
        /\ Succeeded =>
               /\ result.robotState.tips = prevRobotState.tips
               /\ result.robotState.tiprack = prevRobotState.tiprack
               /\ \A i \in DOMAIN result.commands :
                      result.commands[i].command \notin {"dropTip", "pickUpTip"}

(* a carried-over tip serving several chunks *)
C7_Witness ==
    /\ Succeeded /\ args.changeTip = "never"
    /\ Cardinality(Chunks) >= 2
    /\ prevRobotState.tips

(* C8: a blow-out ends a chunk if and only if the disposal volume is       *)
(* positive: then every chunk ends with exactly one blow-out into the      *)
(* disposal labware and well; with disposal volume 0 or absent there is no *)
(* blow-out anywhere.                                                      *)
C8_BlowoutIffDisposal ==
    Succeeded =>
        IF args.disposalVolume > 0
        THEN \A k \in Chunks :
                 /\ IsCommand(LastOf(k), "blowout")
                 /\ commands[LastOf(k)].labware = args.disposalLabware
                 /\ commands[LastOf(k)].well = args.disposalWell
                 /\ CountIn(InChunk(k), "blowout") = 1
        ELSE CountIn(DOMAIN commands, "blowout") = 0

(* blow-outs into the source well after each of several chunks *)
C8_Witness ==
    /\ Succeeded
    /\ args.disposalVolume > 0
    /\ args.disposalLabware = SOURCE_LABWARE
    /\ Cardinality(Chunks) >= 2
    /\ CountIn(DOMAIN commands, "blowout") = Cardinality(Chunks)

(* Volumes of chunk k: dispensed into the destination wells; aspirated     *)
(* (air gap included); given back to the source by the mix.                *)
DispensedIn(k) == SumVolume(MainDispenses(k))
AspiratedIn(k) ==
    SumVolume({i \in InChunk(k) :
                   IsCommand(i, "aspirate") \/ IsCommand(i, "airGap")})
MixedBackIn(k) ==
    SumVolume({i \in InChunk(k) :
                   IsCommand(i, "dispense") /\ ~IsMainDispense(i)})

(* every dispense of chunk k, those of the mix included *)
TotalDispensedIn(k) ==
    SumVolume({i \in InChunk(k) : IsCommand(i, "dispense")})

(* C9 as claimed: per chunk, the total volume dispensed is chunkSize *     *)
(* volume, and the total volume aspirated is that dispensed volume plus    *)
(* the disposal volume plus the air gap.                                   *)
C9_VolumeConservation_AsClaimed ==
    Succeeded =>
        \A k \in Chunks :
            /\ TotalDispensedIn(k) = ChunkSize(k) * args.volume
            /\ AspiratedIn(k) =
                   TotalDispensedIn(k) + disposalVolumeOf(args)
                       + aspirateAirGapVolumeOf(args)

(* C9: per chunk, the volume dispensed into the destination wells is       *)
(* chunkSize * volume, and the volume aspirated (net of what the mix gives *)
(* back) is the dispensed volume plus the disposal volume plus the air     *)
(* gap.                                                                    *)
C9_VolumeConservation ==
    Succeeded =>
        \A k \in Chunks :
            /\ DispensedIn(k) = ChunkSize(k) * args.volume
            /\ ChunkSize(k) =
                   Len(chunk(args.destWells,
                             maxWellsPerChunk(args, makeContext))[k])
            /\ AspiratedIn(k) - MixedBackIn(k) =
                   DispensedIn(k) + disposalVolumeOf(args)
                       + aspirateAirGapVolumeOf(args)

(* chunks with an air gap, a disposal volume and a mix *)
C9_Witness ==
    /\ Succeeded
    /\ args.aspirateAirGapVolume > 0
    /\ args.disposalVolume > 0
    /\ args.mixBeforeAspirate.set
    /\ args.volume > 0
    /\ Cardinality(Chunks) >= 2

(* C10: with a known pipette, a per-well volume above pipette max volume   *)
(* less the disposal volume (0 when absent) gives Failure with the single  *)
(* error PIPETTE_VOLUME_EXCEEDED and no instruction; nothing is built or   *)
(* run, so no tip is dropped, picked up or consumed.                       *)
C10_VolumeExceeded ==
    (Done /\ PipetteExists(makeContext, args.pipette)
          /\ args.volume > makeContext.maxVolume - disposalVolumeOf(args)) =>
        /\ result = Failure(<<Error("PIPETTE_VOLUME_EXCEEDED")>>)
        /\ Len(result.errors) = 1
        /\ result.commands = <<>>
        /\ commandCreators = <<>>
        /\ commands = <<>>
        /\ robotState = prevRobotState

(* a volume the pipette could hold, were it not for the disposal volume *)
C10_Witness ==
    /\ Failed
    /\ result.errors = <<Error("PIPETTE_VOLUME_EXCEEDED")>>
    /\ args.changeTip \in {"once", "always"}
    /\ prevRobotState.tips
    /\ args.disposalVolume > 0
    /\ args.volume <= makeContext.maxVolume
    /\ args.aspirateAirGapVolume = NULL

(* C11: a pipette id that the context does not know makes distribute fail  *)
(* with exactly one PIPETTE_DOES_NOT_EXIST error and zero instructions,    *)
(* before anything is built or simulated, even when the volume would also  *)
(* not fit or no tip would be available.                                   *)
C11_PipetteDoesNotExist ==
    (Done /\ ~PipetteExists(makeContext, args.pipette)) =>
        /\ result = Failure(<<Error("PIPETTE_DOES_NOT_EXIST")>>)
        /\ Len(result.errors) = 1
        /\ result.commands = <<>>
        /\ commandCreators = <<>>
        /\ commands = <<>>
        /\ robotState = prevRobotState

(* the unknown pipette together with a volume that does not fit and a tip  *)
(* change that finds no tip                                                *)
C11_Witness ==
    /\ Failed
    /\ ~PipetteExists(makeContext, args.pipette)
    /\ volumeExceeded(args, makeContext)
    /\ args.changeTip = "always"
    /\ Len(args.destWells) >= 1
    /\ getNextTiprack(prevRobotState) = 0
    /\ result.errors[1].type = "PIPETTE_DOES_NOT_EXIST"

(* The tip pick-ups that the tip policy asks of the call, and the tips     *)
(* that the rack holds                                                     *)
PlannedChunks ==
    Len(chunk(args.destWells, maxWellsPerChunk(args, makeContext)))
RequiredPickUps ==
    IF args.changeTip = "always" THEN PlannedChunks
    ELSE IF args.changeTip = "once" /\ PlannedChunks >= 1 THEN 1
    ELSE 0
TipsIn(state) == Cardinality({w \in DOMAIN state.tiprack : state.tiprack[w]})
MixFits ==
    args.mixBeforeAspirate.set =>
        args.mixBeforeAspirate.volume <= makeContext.maxVolume
StoppedAtTipChange ==
    /\ Failed
    /\ cursor <= Len(commandCreators)
    /\ commandCreators[cursor].creator = "replaceTip"

(* C12: a tip pick-up that finds no unconsumed well in the rack, before    *)
(* the first chunk or before a later chunk under changeTip always, makes   *)
(* distribute fail with exactly one INSUFFICIENT_TIPS error and zero       *)
(* instructions; what earlier chunks produced is not returned.             *)
C12_InsufficientTips ==
    /\ StoppedAtTipChange =>
           /\ getNextTiprack(robotState) = 0
           /\ result = Failure(<<Error("INSUFFICIENT_TIPS")>>)
           /\ Len(result.errors) = 1
           /\ result.commands = <<>>
    /\ ( /\ Done
         /\ PipetteExists(makeContext, args.pipette)
         /\ ~volumeExceeded(args, makeContext)
         /\ MixFits
         /\ RequiredPickUps > TipsIn(prevRobotState) ) =>
           /\ StoppedAtTipChange
           /\ commandCreators[cursor].chunk = TipsIn(prevRobotState) + 1

(* under always the rack runs out before the second chunk, after the       *)
(* first chunk has produced its instructions                               *)
C12_Witness ==
    /\ StoppedAtTipChange
    /\ args.changeTip = "always"
    /\ TipsIn(prevRobotState) = 1
    /\ commandCreators[cursor].chunk = 2
    /\ \E i \in DOMAIN commands : IsMainDispense(i)
    /\ result.commands = <<>>
    /\ result.errors = <<Error("INSUFFICIENT_TIPS")>>

(* A call with changeTip never on a pipette that holds no tip *)
NeverWithoutTip ==
    /\ PipetteExists(makeContext, args.pipette)
    /\ args.changeTip = "never"
    /\ ~prevRobotState.tips

(* C13 as claimed: with changeTip never and no tip held at the start,      *)
(* distribute fails with INSUFFICIENT_TIPS.                                *)
C13_NeverWithoutTip_AsClaimed ==
    (Done /\ NeverWithoutTip) =>
        result = Failure(<<Error("INSUFFICIENT_TIPS")>>)

(* C13: with changeTip never and no tip held at the start, a distribute    *)
(* whose volume fits and that has a destination well fails with            *)
(* INSUFFICIENT_TIPS at its first aspirate, with zero instructions; it     *)
(* never emits an aspirate for the tipless pipette and never picks up a    *)
(* tip.  Without a destination well it succeeds with no instruction, and a *)
(* volume that does not fit is reported first.                             *)
C13_NeverWithoutTip ==
    /\ NeverWithoutTip =>
           /\ commands = <<>>
           /\ robotState = prevRobotState
    /\ (Done /\ NeverWithoutTip /\ ~volumeExceeded(args, makeContext)
           /\ Len(args.destWells) >= 1) =>
           /\ result = Failure(<<Error("INSUFFICIENT_TIPS")>>)
           /\ result.commands = <<>>
           /\ cursor = 1
           /\ commandCreators[1].creator = "aspirate"
    /\ (Done /\ NeverWithoutTip /\ ~volumeExceeded(args, makeContext)
           /\ Len(args.destWells) = 0) =>
           result = Success(<<>>, prevRobotState)
    /\ (Done /\ NeverWithoutTip /\ volumeExceeded(args, makeContext)) =>
           result = Failure(<<Error("PIPETTE_VOLUME_EXCEEDED")>>)

(* the call fails at its first aspirate although the rack holds tips *)
C13_Witness ==
    /\ Failed
    /\ NeverWithoutTip
    /\ TipsIn(prevRobotState) >= 1
    /\ cursor = 1
    /\ Len(commandCreators) >= 1
    /\ commandCreators[1].creator = "aspirate"
    /\ commandCreators[1].step = "aspirate"
    /\ result.errors = <<Error("INSUFFICIENT_TIPS")>>

AirGaps(k) == {i \in InChunk(k) : IsCommand(i, "airGap")}
DispenseAirGaps(k) == {i \in InChunk(k) : IsCommand(i, "dispenseAirGap")}
FirstMainDispense(k) ==
    CHOOSE i \in MainDispenses(k) : \A j \in MainDispenses(k) : i <= j

(* C14: with an air gap volume set, every chunk of a successful distribute *)
(* holds exactly one air-gap aspirate, at the source well after the main   *)
(* aspirate, and exactly one dispense-air-gap, at the chunk's first        *)
(* destination well before that well's main dispense; the later wells get  *)
(* none.  With no air gap volume there is neither anywhere.                *)
C14_AirGap ==
    Succeeded =>
        \A k \in Chunks :
            IF args.aspirateAirGapVolume > 0
            THEN /\ Cardinality(AirGaps(k)) = 1
                 /\ Cardinality(DispenseAirGaps(k)) = 1
                 /\ \A g \in AirGaps(k), d \in DispenseAirGaps(k) :
                        /\ commands[g].labware = args.sourceLabware
                        /\ commands[g].well = args.sourceWell
                        /\ commands[g].volume = args.aspirateAirGapVolume
                        /\ \A i \in MainAspirates(k) : i < g
                        /\ g < d
                        /\ d < FirstMainDispense(k)
                        /\ commands[d].labware = args.destLabware
                        /\ commands[d].well = commands[FirstMainDispense(k)].well
                        /\ commands[d].volume = args.aspirateAirGapVolume
            ELSE AirGaps(k) = {} /\ DispenseAirGaps(k) = {}

(* an air gap over two chunks, one of them serving two wells *)
C14_Witness ==
    /\ Succeeded
    /\ args.aspirateAirGapVolume > 0
    /\ Cardinality(Chunks) >= 2
    /\ \E k \in Chunks :
           /\ ChunkSize(k) >= 2
           /\ \E d \in DispenseAirGaps(k) :
                  commands[d].well = args.destWells[1]

(* Where the mix of chunk k starts (after the chunk's tip commands), and   *)
(* the length of one mix repetition                                        *)
MixStart(k) ==
    FirstOf(k) + CountIn(InChunk(k), "dropTip") + CountIn(InChunk(k), "pickUpTip")
AspirateDelayLen == IF args.aspirateDelay.set THEN 1 ELSE 0
DispenseDelayLen == IF args.dispenseDelay.set THEN 1 ELSE 0
MixStride == 2 + AspirateDelayLen + DispenseDelayLen
SourceDispenses(k) ==
    {i \in InChunk(k) : /\ IsCommand(i, "dispense")
                        /\ commands[i].labware = args.sourceLabware}

(* C15: with mixBeforeAspirate set, every chunk of a successful distribute *)
(* runs, after its tip handling and right before its main aspirate,        *)
(* exactly `times` repetitions of [aspirate the mix volume from the source *)
(* well, dispense it back into the source well], each mix aspirate         *)
(* followed by a plain delay of aspirateDelay.seconds and each mix         *)
(* dispense by one of dispenseDelay.seconds when those are set.  With it   *)
(* unset no chunk dispenses into the source well.                          *)
C15_MixBeforeAspirate ==
    Succeeded =>
        \A k \in Chunks :
            LET m == args.mixBeforeAspirate
                mixAspirate ==
                    Command("aspirate", args.sourceLabware, args.sourceWell,
                            m.volume, 0)
                mixDispense ==
                    Command("dispense", args.sourceLabware, args.sourceWell,
                            m.volume, 0)
            IN  IF m.set
                THEN /\ \A t \in 0..(m.times - 1) :
                            LET b == MixStart(k) + t * MixStride
                            IN  /\ commands[b] = mixAspirate
                                /\ args.aspirateDelay.set =>
                                       commands[b + 1] =
                                           Command("delay", NONE, 0, 0,
                                               args.aspirateDelay.seconds)
                                /\ commands[b + 1 + AspirateDelayLen]
                                       = mixDispense
                                /\ args.dispenseDelay.set =>
                                       commands[b + 2 + AspirateDelayLen] =
                                           Command("delay", NONE, 0, 0,
                                               args.dispenseDelay.seconds)
                     /\ MainAspirates(k) = {MixStart(k) + m.times * MixStride}
                     /\ Cardinality(SourceDispenses(k)) = m.times
                ELSE /\ SourceDispenses(k) = {}
                     /\ MainAspirates(k) = {MixStart(k)}

(* a mix with both delays, after a tip change, in a second chunk *)
C15_Witness ==
    /\ Succeeded
    /\ args.mixBeforeAspirate.set
    /\ args.aspirateDelay.set
    /\ args.dispenseDelay.set
    /\ args.changeTip = "always"
    /\ Cardinality(Chunks) >= 2
    /\ Cardinality(SourceDispenses(2)) = MixTimes

DestTouchTips(k) ==
    {i \in InChunk(k) : /\ IsCommand(i, "touchTip")
                        /\ commands[i].labware = args.destLabware}
SourceTouchTips(k) ==
    {i \in InChunk(k) : /\ IsCommand(i, "touchTip")
                        /\ commands[i].labware = args.sourceLabware}

(* C16: with touchTipAfterDispense set, the main dispense of every well of *)
(* every chunk is followed by a touch-tip at that well, before the next    *)
(* well's dispense or the chunk's blow-out; with it unset no touch-tip at  *)
(* a destination well occurs.  With touchTipAfterAspirate set every chunk  *)
(* holds exactly one touch-tip at the source well, after the main aspirate *)
(* and before the first dispense.                                          *)
C16_TouchTip ==
    Succeeded =>
        \A k \in Chunks :
            /\ IF args.touchTipAfterDispense
               THEN /\ Cardinality(DestTouchTips(k)) = ChunkSize(k)
                    /\ \A i \in MainDispenses(k) :
                           \E j \in DestTouchTips(k) :
                               /\ i < j
                               /\ commands[j].well = commands[i].well
                               /\ \A x \in (i + 1)..j :
                                      /\ ~IsMainDispense(x)
                                      /\ ~IsCommand(x, "blowout")
               ELSE DestTouchTips(k) = {}
            /\ args.touchTipAfterAspirate =>
                   /\ Cardinality(SourceTouchTips(k)) = 1
                   /\ \A j \in SourceTouchTips(k) :
                          /\ commands[j].well = args.sourceWell
                          /\ \A i \in MainAspirates(k) : i < j
                          /\ j < FirstMainDispense(k)

(* both touch-tips, a chunk of two wells, a dispense delay and a blow-out *)
C16_Witness ==
    /\ Succeeded
    /\ args.touchTipAfterDispense
    /\ args.touchTipAfterAspirate
    /\ args.dispenseDelay.set
    /\ \E k \in Chunks :
           /\ ChunkSize(k) >= 2
           /\ CountIn(InChunk(k), "blowout") = 1
           /\ Cardinality(DestTouchTips(k)) = 2
           /\ Cardinality(SourceTouchTips(k)) = 1

(* delayWithOffset read back from the commands: right after command i      *)
(* comes a move to the well and then a delay of the given seconds          *)
DelayWithOffsetFollows(i, labware, well, seconds) ==
    /\ i + 2 <= Len(commands)
    /\ commands[i + 1] = Command("moveToWell", labware, well, 0, 0)
    /\ commands[i + 2] = Command("delay", NONE, 0, 0, seconds)

(* C17: the main aspirate of every chunk is followed at once by a move to  *)
(* the source well and a delay of aspirateDelay.seconds if and only if     *)
(* aspirateDelay is set; with neither aspirateDelay nor dispenseDelay set  *)
(* a successful distribute holds no delay and no move-to-well at all.      *)
C17_DelayAfterAspirate ==
    Succeeded =>
        /\ \A k \in Chunks : \A i \in MainAspirates(k) :
               args.aspirateDelay.set <=>
                   DelayWithOffsetFollows(i, args.sourceLabware,
                       args.sourceWell, args.aspirateDelay.seconds)
        /\ (~args.aspirateDelay.set /\ ~args.dispenseDelay.set) =>
               \A i \in DOMAIN commands :
                   ~IsCommand(i, "delay") /\ ~IsCommand(i, "moveToWell")

(* an aspirate delay in two chunks, with a touch-tip after it, and no      *)
(* dispense delay                                                          *)
C17_Witness ==
    /\ Succeeded
    /\ args.aspirateDelay.set
    /\ ~args.dispenseDelay.set
    /\ args.touchTipAfterAspirate
    /\ Cardinality(Chunks) >= 2
    /\ \A k \in Chunks : \A i \in MainAspirates(k) :
           /\ IsCommand(i + 1, "moveToWell")
           /\ commands[i + 2].wait = args.aspirateDelay.seconds
           /\ IsCommand(i + 3, "touchTip")

(* C18: with dispenseDelay set, the main dispense of every destination     *)
(* well of every chunk is followed by a move to that well and a delay of   *)
(* dispenseDelay.seconds, before any touch-tip at that well; with it unset *)
(* no delay follows a main dispense.                                       *)
C18_DelayAfterDispense ==
    Succeeded =>
        \A k \in Chunks : \A i \in MainDispenses(k) :
            IF args.dispenseDelay.set
            THEN /\ DelayWithOffsetFollows(i, args.destLabware,
                        commands[i].well, args.dispenseDelay.seconds)
                 /\ \A j \in DestTouchTips(k) :
                        (j > i /\ commands[j].well = commands[i].well)
                            => j > i + 2
            ELSE /\ ~DelayWithOffsetFollows(i, args.destLabware,
                         commands[i].well, args.dispenseDelay.seconds)
                 /\ i + 1 <= Len(commands) =>
                        /\ ~IsCommand(i + 1, "delay")
                        /\ ~IsCommand(i + 1, "moveToWell")

(* a dispense delay with a touch-tip after it, in a chunk of two wells *)
C18_Witness ==
    /\ Succeeded
    /\ args.dispenseDelay.set
    /\ args.touchTipAfterDispense
    /\ ~args.aspirateDelay.set
    /\ \E k \in Chunks :
           /\ ChunkSize(k) >= 2
           /\ \A i \in MainDispenses(k) :
                  /\ IsCommand(i + 1, "moveToWell")
                  /\ commands[i + 2].wait = args.dispenseDelay.seconds
                  /\ IsCommand(i + 3, "touchTip")

(* The chain replayed: the state and the instructions after the first i    *)
(* creators, each run on the state its predecessor returned                *)
RECURSIVE ChainAfter(_)
ChainAfter(i) ==
    IF i = 0 THEN [robotState |-> prevRobotState, commands |-> <<>>]
    ELSE LET before == ChainAfter(i - 1)
             r == ApplyCreator(commandCreators[i], makeContext,
                               before.robotState)
         IN  [robotState |-> r.robotState,
              commands |-> before.commands \o r.commands]

(* C21: the Result Accumulator threads the state in order: creator i runs  *)
(* on the state that creator i-1 returned (the first on the initial        *)
(* state), the instructions are the in-order concatenation of the          *)
(* creators' instructions, and once a creator fails no later creator runs  *)
(* and the result is that creator's error with no instructions.            *)
C21_Threading ==
    Done =>
        /\ robotState = ChainAfter(cursor - 1).robotState
        /\ commands = ChainAfter(cursor - 1).commands
        /\ Succeeded =>
               /\ cursor = Len(commandCreators) + 1
               /\ result = Success(commands, robotState)
        /\ (Failed /\ commandCreators # <<>>) =>
               LET r == ApplyCreator(commandCreators[cursor], makeContext,
                                     robotState)
               IN  /\ cursor <= Len(commandCreators)
                   /\ ~r.ok
                   /\ result.errors = r.errors
                   /\ result.commands = <<>>

(* the chain stops in its second chunk, on a state that the first chunk's  *)
(* tip change has altered                                                  *)
C21_Witness ==
    /\ Failed
    /\ commandCreators # <<>>
    /\ cursor < Len(commandCreators)
    /\ cursor > 3
    /\ robotState # prevRobotState
    /\ commands # <<>>

(* The instruction stream replayed for the tip: the pipette holds a tip at *)
(* instruction i when the last tip instruction before i is a pick-up-tip,  *)
(* or, with none before i, when it held one initially                      *)
TipCommandsBefore(i) ==
    {j \in 1..(i - 1) : IsCommand(j, "dropTip") \/ IsCommand(j, "pickUpTip")}
TipHeldAt(i) ==
    IF TipCommandsBefore(i) = {} THEN prevRobotState.tips
    ELSE LET last == CHOOSE j \in TipCommandsBefore(i) :
                         \A x \in TipCommandsBefore(i) : x <= j
         IN  IsCommand(last, "pickUpTip")
NeedsTip(i) ==
    commands[i].command \in
        {"aspirate", "dispense", "airGap", "dispenseAirGap", "touchTip",
         "blowout"}

(* C22: replaying the instructions of a successful distribute from its     *)
(* initial state, every aspirate, dispense, air gap, dispense-air-gap,     *)
(* touch-tip and blow-out runs while the pipette holds a tip: none falls   *)
(* between a drop-tip and the next pick-up-tip, or before the first        *)
(* pick-up-tip of a pipette that started without one.                      *)
C22_TipHeld ==
    Succeeded =>
        \A i \in DOMAIN commands : NeedsTip(i) => TipHeldAt(i)

(* tips changed in two chunks, starting without a tip, with an air gap, a  *)
(* touch-tip and a blow-out in the stream                                  *)
C22_Witness ==
    /\ Succeeded
    /\ args.changeTip = "always"
    /\ ~prevRobotState.tips
    /\ Cardinality(Chunks) >= 2
    /\ CountIn(DOMAIN commands, "dropTip") >= 1
    /\ CountIn(DOMAIN commands, "airGap") >= 1
    /\ CountIn(DOMAIN commands, "touchTip") >= 1
    /\ CountIn(DOMAIN commands, "blowout") >= 1

PickUps == {i \in DOMAIN commands : IsCommand(i, "pickUpTip")}
PickedWells == {commands[i].well : i \in PickUps}

(* C24: no tip-rack well is picked up twice: every pick-up-tip takes a     *)
(* well that was unconsumed, the lowest one in rack order that is left     *)
(* (also in a rack that earlier operations have partly consumed), marks it *)
(* consumed and leaves the pipette holding a tip; successive pick-ups take *)
(* distinct wells in rack order, and the consumed wells are the ones       *)
(* consumed initially plus the ones picked, so their number never          *)
(* decreases.                                                              *)
C24_TipRack ==
    /\ \A i \in PickUps :
           /\ commands[i].labware = TIPRACK
           /\ commands[i].well \in DOMAIN prevRobotState.tiprack
           /\ prevRobotState.tiprack[commands[i].well]
           /\ \A w \in DOMAIN prevRobotState.tiprack :
                  (w < commands[i].well /\ prevRobotState.tiprack[w]) =>
                      \E j \in PickUps : j < i /\ commands[j].well = w
    /\ \A i, j \in PickUps : i < j => commands[i].well < commands[j].well
    /\ \A w \in DOMAIN robotState.tiprack :
           robotState.tiprack[w] <=>
               (prevRobotState.tiprack[w] /\ w \notin PickedWells)
    /\ robotState.tips = TipHeldAt(Len(commands) + 1)

(* under always, a pick-up in every chunk, each from the next rack well *)
C24_Witness ==
    /\ Succeeded
    /\ args.changeTip = "always"
    /\ Cardinality(PickUps) = MaxTips
    /\ PickedWells = DOMAIN prevRobotState.tiprack
    /\ \A w \in DOMAIN robotState.tiprack : ~robotState.tiprack[w]

---------------------------------------------------------------------------
(* The r-th main dispense of the whole call, counted from 1 *)
MainRank(i) ==
    Cardinality({j \in 1..i : IsMainDispense(j)})
AllMainDispenses == {i \in DOMAIN commands : IsMainDispense(i)}

(* The chunks are contiguous slices of the destination list, in order,     *)
(* `size` wells each but for the last: the r-th main dispense goes to the   *)
(* r-th destination well and belongs to chunk ceil(r / size).               *)
SlicedBy(size) ==
    /\ Cardinality(AllMainDispenses) = Len(args.destWells)
    /\ \A i \in AllMainDispenses :
           /\ commands[i].well = args.destWells[MainRank(i)]
           /\ origin[i].chunk = ((MainRank(i) - 1) \div size) + 1
    /\ \A k \in Chunks :
           /\ k # LastChunk => ChunkSize(k) = size
           /\ k = LastChunk => ChunkSize(k) >= 1 /\ ChunkSize(k) <= size

(* The statement of C25 as written: the chunk size is                      *)
(* floor((pipetteMaxVolume - disposalVolume) / perWellVolume).             *)
C25_Chunking_AsClaimed ==
    (Succeeded /\ args.volume > 0 /\ args.destWells # <<>>) =>
        SlicedBy((makeContext.maxVolume - disposalVolumeOf(args))
                     \div args.volume)

(* C25: chunking is greedy and maximal against the chunk capacity, which   *)
(* is pipetteMaxVolume - disposalVolume - airGapVolume: in a successful    *)
(* distribute with a positive per-well volume the chunks are contiguous    *)
(* slices of the destination list in order whose concatenation is the      *)
(* whole list, every chunk but the last holds exactly                      *)
(* floor((P - disposal - airGap) / perWellVolume) wells, and the last is   *)
(* non-empty and no larger.                                                *)
C25_Chunking ==
    (Succeeded /\ args.volume > 0 /\ args.destWells # <<>>) =>
        SlicedBy((makeContext.maxVolume - disposalVolumeOf(args)
                      - aspirateAirGapVolumeOf(args)) \div args.volume)

(* an air gap that costs the chunk a well: three wells go out as two and   *)
(* one where the capacity less the disposal volume alone would carry three *)
C25_Witness ==
    /\ Succeeded
    /\ args.volume > 0
    /\ args.aspirateAirGapVolume > 0
    /\ Cardinality(Chunks) = 2
    /\ ChunkSize(1) = 2
    /\ ChunkSize(2) = 1
    /\ (makeContext.maxVolume - disposalVolumeOf(args)) \div args.volume = 3

---------------------------------------------------------------------------
(* What the pipette holds after the first i commands of the stream, liquid *)
(* and air together: aspirates and air gaps add, dispenses take away, and  *)
(* a blow-out or a tip change empties it.                                  *)
RECURSIVE HeldAfter(_)
HeldAfter(i) ==
    IF i = 0 THEN 0
    ELSE IF commands[i].command \in {"aspirate", "airGap"}
         THEN HeldAfter(i - 1) + commands[i].volume
    ELSE IF commands[i].command \in {"dispense", "dispenseAirGap"}
         THEN HeldAfter(i - 1) - commands[i].volume
    ELSE IF commands[i].command \in {"blowout", "dropTip", "pickUpTip"}
         THEN 0
    ELSE HeldAfter(i - 1)

(* C26: the air gap counts against the pipette's capacity: with an air gap *)
(* volume set, every chunk of a successful distribute satisfies            *)
(* chunkSize * perWellVolume + disposalVolume + airGapVolume <= pipette    *)
(* max volume, and at no point of the stream does the pipette hold more    *)
(* than its max volume.                                                    *)
C26_AirGapCapacity ==
    (Succeeded /\ args.aspirateAirGapVolume > 0) =>
        /\ \A k \in Chunks :
               ChunkSize(k) * args.volume + disposalVolumeOf(args)
                   + args.aspirateAirGapVolume <= makeContext.maxVolume
        /\ \A i \in DOMAIN commands :
               /\ HeldAfter(i) <= makeContext.maxVolume
               /\ HeldAfter(i) >= 0

(* a full pipette: a chunk whose wells, disposal volume and air gap add up *)
(* to the capacity exactly, in a call that needed a second chunk for it    *)
C26_Witness ==
    /\ Succeeded
    /\ args.aspirateAirGapVolume > 0
    /\ Cardinality(Chunks) >= 2
    /\ disposalVolumeOf(args) > 0
    /\ \E i \in DOMAIN commands :
           IsCommand(i, "airGap") /\ HeldAfter(i) = makeContext.maxVolume

---------------------------------------------------------------------------
(* The statement of C27 as written: the air-gap aspirate and its delay     *)
(* come before the touch-tip at the source well.                           *)
C27_AirGapThenTouchTip_AsClaimed ==
    (Succeeded /\ args.aspirateAirGapVolume > 0 /\ args.touchTipAfterAspirate) =>
        \A k \in Chunks :
            \A g \in AirGaps(k) : \A t \in SourceTouchTips(k) : g < t

(* C27: within a chunk where both an air gap volume and                    *)
(* touchTipAfterAspirate are set, the touch-tip at the source well comes   *)
(* before the air-gap aspirate and the delay that follows it, and both     *)
(* come before the chunk's first dispense into a destination well.         *)
C27_TouchTipThenAirGap ==
    (Succeeded /\ args.aspirateAirGapVolume > 0 /\ args.touchTipAfterAspirate) =>
        \A k \in Chunks :
            /\ AirGaps(k) # {}
            /\ SourceTouchTips(k) # {}
            /\ \A g \in AirGaps(k) : \A t \in SourceTouchTips(k) :
                   /\ t < g
                   /\ g < FirstMainDispense(k)
                   /\ \A i \in InChunk(k) :
                          origin[i].step = "airGapDelay" => t < i

(* both set, no delays, two chunks: each chunk touches, then takes the gap *)
C27_Witness ==
    /\ Succeeded
    /\ args.aspirateAirGapVolume > 0
    /\ args.touchTipAfterAspirate
    /\ ~args.aspirateDelay.set
    /\ Cardinality(Chunks) >= 2
    /\ \A k \in Chunks : \E t \in SourceTouchTips(k) : \E g \in AirGaps(k) :
           g = t + 1

(* C28: within a chunk where both touchTipAfterAspirate and an air gap     *)
(* volume are set, the touch-tip at the source well comes directly after   *)
(* the main aspirate and its delay-with-offset and directly before the     *)
(* air-gap aspirate: the aspirate side reads aspirate, [move-to-well,      *)
(* delay], touch-tip, air-gap, [delay], the bracketed parts present when   *)
(* aspirateDelay is set.                                                   *)
C28_AspirateSideOrder ==
    (Succeeded /\ args.aspirateAirGapVolume > 0 /\ args.touchTipAfterAspirate) =>
        \A k \in Chunks : \A i \in MainAspirates(k) :
            LET t == i + 2 * AspirateDelayLen + 1
            IN  /\ args.aspirateDelay.set =>
                       DelayWithOffsetFollows(i, args.sourceLabware,
                           args.sourceWell, args.aspirateDelay.seconds)
                /\ t + 1 + AspirateDelayLen <= Len(commands)
                /\ commands[t] = Command("touchTip", args.sourceLabware,
                                         args.sourceWell, 0, 0)
                /\ commands[t + 1] = Command("airGap", args.sourceLabware,
                                             args.sourceWell,
                                             args.aspirateAirGapVolume, 0)
                /\ args.aspirateDelay.set =>
                       commands[t + 2] = Command("delay", NONE, 0, 0,
                                                 args.aspirateDelay.seconds)

(* all six in a row: aspirate, move-to-well, delay, touch-tip, air-gap,    *)
(* delay                                                                   *)
C28_Witness ==
    /\ Succeeded
    /\ args.aspirateDelay.set
    /\ \E i \in DOMAIN commands :
           /\ i + 5 <= Len(commands)
           /\ origin[i].step = "aspirate"
           /\ IsCommand(i, "aspirate")
           /\ IsCommand(i + 1, "moveToWell")
           /\ IsCommand(i + 2, "delay")
           /\ IsCommand(i + 3, "touchTip")
           /\ IsCommand(i + 4, "airGap")
           /\ IsCommand(i + 5, "delay")

---------------------------------------------------------------------------
(* The commands between the dispense of the air gap at d and the main      *)
(* dispense of chunk k's first well                                        *)
AfterDispenseAirGap(k, d) == SubSeq(commands, d + 1, FirstMainDispense(k) - 1)

(* The statement of C29 as written: the delay between the dispense of the  *)
(* air gap and the first well's main dispense is there, with               *)
(* aspirateDelay.seconds, if and only if aspirateDelay is set.             *)
C29_DispenseAirGapDelay_AsClaimed ==
    (Succeeded /\ args.aspirateAirGapVolume > 0) =>
        \A k \in Chunks : \A d \in DispenseAirGaps(k) :
            AfterDispenseAirGap(k, d) =
                IF args.aspirateDelay.set
                THEN <<Command("delay", NONE, 0, 0, args.aspirateDelay.seconds)>>
                ELSE <<>>

(* C29: the delay between the dispense-air-gap into a chunk's first well   *)
(* and that well's main dispense is governed by dispenseDelay: exactly one *)
(* delay of dispenseDelay.seconds stands between the two if and only if    *)
(* dispenseDelay is set, and nothing stands between them otherwise.        *)
C29_DispenseAirGapDelay ==
    (Succeeded /\ args.aspirateAirGapVolume > 0) =>
        \A k \in Chunks : \A d \in DispenseAirGaps(k) :
            AfterDispenseAirGap(k, d) =
                IF args.dispenseDelay.set
                THEN <<Command("delay", NONE, 0, 0, args.dispenseDelay.seconds)>>
                ELSE <<>>

(* the two settings disagree: a dispense delay and no aspirate delay, and  *)
(* a delay after the dispense of the air gap in each of two chunks         *)
C29_Witness ==
    /\ Succeeded
    /\ args.dispenseDelay.set
    /\ ~args.aspirateDelay.set
    /\ Cardinality(Chunks) >= 2
    /\ \A k \in Chunks : \E d \in DispenseAirGaps(k) :
           Len(AfterDispenseAirGap(k, d)) = 1

(* C30: the command after the dispense-air-gap is a plain delay of         *)
(* dispenseDelay.seconds, with no move-to-well, if and only if             *)
(* dispenseDelay is set, and with only aspirateDelay set the main dispense *)
(* follows the dispense-air-gap at once; the command after the air-gap     *)
(* aspirate is a plain delay of aspirateDelay.seconds if and only if       *)
(* aspirateDelay is set, the dispense-air-gap following at once otherwise. *)
C30_AirGapDelays ==
    (Succeeded /\ args.aspirateAirGapVolume > 0) =>
        \A k \in Chunks :
            /\ \A d \in DispenseAirGaps(k) :
                   /\ args.dispenseDelay.set <=>
                          commands[d + 1] = Command("delay", NONE, 0, 0,
                                                    args.dispenseDelay.seconds)
                   /\ ~args.dispenseDelay.set <=> IsMainDispense(d + 1)
                   /\ args.dispenseDelay.set => IsMainDispense(d + 2)
                   /\ (args.aspirateDelay.set /\ ~args.dispenseDelay.set) =>
                          /\ ~IsCommand(d + 1, "delay")
                          /\ ~IsCommand(d + 1, "moveToWell")
            /\ \A g \in AirGaps(k) :
                   /\ args.aspirateDelay.set <=>
                          commands[g + 1] = Command("delay", NONE, 0, 0,
                                                    args.aspirateDelay.seconds)
                   /\ ~args.aspirateDelay.set <=> IsCommand(g + 1, "dispenseAirGap")
                   /\ args.aspirateDelay.set => IsCommand(g + 2, "dispenseAirGap")

(* both delays set: air gap, delay of the aspirate seconds, dispense of    *)
(* the air gap, delay of the dispense seconds, main dispense               *)
C30_Witness ==
    /\ Succeeded
    /\ args.aspirateDelay.set
    /\ args.dispenseDelay.set
    /\ args.aspirateDelay.seconds # args.dispenseDelay.seconds
    /\ \E g \in DOMAIN commands :
           /\ g + 4 <= Len(commands)
           /\ IsCommand(g, "airGap")
           /\ commands[g + 1].wait = args.aspirateDelay.seconds
           /\ IsCommand(g + 2, "dispenseAirGap")
           /\ commands[g + 3].wait = args.dispenseDelay.seconds
           /\ IsMainDispense(g + 4)

---------------------------------------------------------------------------
(* The phase of a chunk that command i came out of, by the template step   *)
(* that emitted it: 1 tip handling, 2 the mix before the aspirate, 3 the   *)
(* main aspirate and what goes with it at the source, 4 the dispenses into *)
(* the destination wells, 5 the blow-out.                                  *)
PhaseOf(i) ==
    LET step == origin[i].step
    IN  IF step = "tip" THEN 1
        ELSE IF step \in {"mixAspirate", "mixAspirateDelay", "mixDispense",
                          "mixDispenseDelay"} THEN 2
        ELSE IF step \in {"aspirate", "aspirateDelayMove", "aspirateDelay",
                          "touchTipAfterAspirate", "airGap", "airGapDelay"}
        THEN 3
        ELSE IF step \in {"dispenseAirGap", "dispenseAirGapDelay", "dispense",
                          "dispenseDelayMove", "dispenseDelay",
                          "touchTipAfterDispense"} THEN 4
        ELSE IF step = "blowout" THEN 5
        ELSE 0

(* What a command of each phase is: tip commands, source-well mixing, the  *)
(* source-side commands, the destination-side commands, the blow-out       *)
PhaseFits(i) ==
    LET c == commands[i]
        atSource == c.labware = args.sourceLabware /\ c.well = args.sourceWell
    IN  CASE PhaseOf(i) = 1 -> c.command \in {"dropTip", "pickUpTip"}
          [] PhaseOf(i) = 2 ->
                 /\ args.mixBeforeAspirate.set
                 /\ \/ c.command = "delay"
                    \/ /\ c.command \in {"aspirate", "dispense"}
                       /\ atSource
                       /\ c.volume = args.mixBeforeAspirate.volume
          [] PhaseOf(i) = 3 ->
                 \/ c.command = "delay"
                 \/ c.command \in {"aspirate", "moveToWell", "touchTip",
                                    "airGap"} /\ atSource
          [] PhaseOf(i) = 4 ->
                 \/ c.command = "delay"
                 \/ /\ c.command \in {"dispenseAirGap", "dispense",
                                       "moveToWell", "touchTip"}
                    /\ c.labware = args.destLabware
          [] PhaseOf(i) = 5 -> c.command = "blowout"
          [] OTHER -> FALSE

(* C31: chunks never interleave and each follows the same phase order: all *)
(* instructions of chunk k precede all instructions of chunk k+1, and      *)
(* within a chunk come the tip handling, then the mix-before-aspirate      *)
(* block, then the main aspirate, then the per-well dispenses in well      *)
(* order, then the blow-out, when present, as the chunk's last             *)
(* instruction.                                                            *)
C31_PhaseOrder ==
    Succeeded =>
        /\ \A i \in DOMAIN commands :
               /\ PhaseFits(i)
               /\ i < Len(commands) =>
                      \/ origin[i + 1].chunk = origin[i].chunk + 1
                      \/ /\ origin[i + 1].chunk = origin[i].chunk
                         /\ PhaseOf(i) <= PhaseOf(i + 1)
                         /\ ~IsCommand(i, "blowout")
        /\ \A k \in Chunks :
               /\ Cardinality(MainAspirates(k)) = 1
               /\ \A i \in MainAspirates(k) :
                      /\ \A j \in MainDispenses(k) : i < j
                      /\ \A j \in SourceDispenses(k) : j < i
               /\ \A i, j \in MainDispenses(k) :
                      i < j => MainRank(i) < MainRank(j)
                               /\ commands[i].well < commands[j].well

(* every phase at once, twice over: a tip change, a mix, an aspirate, two  *)
(* dispenses and a blow-out in the first chunk, the same with one dispense *)
(* in the second                                                           *)
C31_Witness ==
    /\ Succeeded
    /\ args.changeTip = "always"
    /\ args.mixBeforeAspirate.set
    /\ Cardinality(Chunks) = 2
    /\ ChunkSize(1) = 2
    /\ \A k \in Chunks : \A ph \in 1..5 :
           \E i \in InChunk(k) : PhaseOf(i) = ph

---------------------------------------------------------------------------
(* One step of the chain, from the state before to the state after: what   *)
(* the creator at the cursor did to the liquids.                           *)
LiquidsFrame ==
    (pc = "reduce" /\ cursor' = cursor + 1) =>
        LET cc == commandCreators[cursor]
            lw == <<cc.labware, cc.well>>
        IN  /\ cc.creator = "aspirate" =>
                   robotState'.liquids =
                       [robotState.liquids EXCEPT ![lw] = @ - cc.volume]
            /\ cc.creator = "dispense" =>
                   robotState'.liquids =
                       [robotState.liquids EXCEPT ![lw] = @ + cc.volume]
            /\ cc.creator \notin {"aspirate", "dispense"} =>
                   robotState'.liquids = robotState.liquids
            /\ cc.creator \in {"aspirate", "dispense", "airGap",
                                "dispenseAirGap", "touchTip"} =>
                   /\ robotState'.tips = robotState.tips
                   /\ robotState'.tiprack = robotState.tiprack
            /\ cc.creator = "delay" => robotState' = robotState

(* C32: air-gap, dispense-air-gap, delay and touch-tip steps leave the     *)
(* liquids of the simulation state unchanged; only an aspirate lowers a    *)
(* well's volume and only a dispense raises one, each by exactly the       *)
(* instruction's volume and in the instruction's well alone; a delay       *)
(* leaves the whole simulation state unchanged.                            *)
C32_LiquidsFrame == [][LiquidsFrame]_vars

(* a finished call with an air gap, a delay and a touch-tip in it, whose   *)
(* source well lost what the main aspirates drew and nothing more          *)
C32_Witness ==
    /\ Succeeded
    /\ \E i \in DOMAIN commands : IsCommand(i, "airGap")
    /\ \E i \in DOMAIN commands : IsCommand(i, "dispenseAirGap")
    /\ \E i \in DOMAIN commands : IsCommand(i, "delay")
    /\ \E i \in DOMAIN commands : IsCommand(i, "touchTip")
    /\ Cardinality(Chunks) >= 2
    /\ wellVolume(robotState, args.sourceLabware, args.sourceWell)
           = wellVolume(prevRobotState, args.sourceLabware, args.sourceWell)
               - SumVolume(UNION {MainAspirates(k) : k \in Chunks})
    /\ wellVolume(robotState, args.sourceLabware, args.sourceWell)
           < wellVolume(prevRobotState, args.sourceLabware, args.sourceWell)

---------------------------------------------------------------------------
(* reduceCommandCreators as a function: the creators from the i-th on, run *)
(* on `state` with `cmds` already made                                     *)
RECURSIVE reduceCommandCreators(_, _, _, _, _)
reduceCommandCreators(creators, i, ctx, state, cmds) ==
    IF i > Len(creators) THEN Success(cmds, state)
    ELSE LET r == ApplyCreator(creators[i], ctx, state)
         IN  IF r.ok
             THEN reduceCommandCreators(creators, i + 1, ctx, r.robotState,
                                        cmds \o r.commands)
             ELSE Failure(r.errors)

(* distribute as a function of its arguments, the context and the state *)
distribute(a, ctx, state) ==
    IF ~PipetteExists(ctx, a.pipette)
    THEN Failure(<<Error("PIPETTE_DOES_NOT_EXIST")>>)
    ELSE IF volumeExceeded(a, ctx)
    THEN Failure(<<Error("PIPETTE_VOLUME_EXCEEDED")>>)
    ELSE reduceCommandCreators(distributeCommandCreators(a, ctx), 1, ctx,
                               state, <<>>)

WithoutPreWet == [args EXCEPT !.preWetTip = FALSE]

(* C33: the preWetTip flag has no effect on distribute: whatever the other *)
(* arguments, a call returns what distribute returns for the same          *)
(* arguments with preWetTip = false, and the chain it runs is the chain of *)
(* those arguments; no pre-wet aspirate and dispense pair is emitted: a    *)
(* call that does not mix never dispenses into the source well and         *)
(* aspirates once per chunk.                                               *)
C33_PreWetTip ==
    /\ pc = "reduce" =>
           commandCreators = distributeCommandCreators(WithoutPreWet, makeContext)
    /\ Done => result = distribute(WithoutPreWet, makeContext, prevRobotState)
    /\ (Succeeded /\ ~args.mixBeforeAspirate.set) =>
           \A k \in Chunks :
               /\ SourceDispenses(k) = {}
               /\ CountIn(InChunk(k), "aspirate") = 1

(* the flag set on a call with every other option on, two chunks long *)
C33_Witness ==
    /\ Succeeded
    /\ args.preWetTip
    /\ args.mixBeforeAspirate.set
    /\ args.aspirateDelay.set
    /\ args.touchTipAfterAspirate
    /\ args.aspirateAirGapVolume > 0
    /\ args.changeTip = "always"
    /\ Cardinality(Chunks) >= 2
    /\ result.commands # <<>>

---------------------------------------------------------------------------
DropTips == {i \in DOMAIN commands : IsCommand(i, "dropTip")}

(* The tip change that the pick-up at i belongs to started with a drop-tip *)
DropPrecedes(i) ==
    /\ i > 1
    /\ IsCommand(i - 1, "dropTip")
    /\ origin[i - 1].chunk = origin[i].chunk

(* C34: a tip change that comes due while the pipette holds no tip emits   *)
(* the pick-up-tip alone, and one that comes due while it holds a tip      *)
(* emits the drop-tip and then the pick-up-tip; a drop-tip is never        *)
(* emitted for a pipette that holds no tip, and each one is followed at    *)
(* once by the pick-up-tip of the same tip change.                         *)
C34_DropOnlyIfHeld ==
    /\ \A i \in DropTips :
           /\ TipHeldAt(i)
           /\ Done => /\ i < Len(commands)
                      /\ IsCommand(i + 1, "pickUpTip")
    /\ \A i \in PickUps :
           /\ origin[i].step = "tip"
           /\ DropPrecedes(i) <=>
                  IF i > 1 /\ IsCommand(i - 1, "dropTip")
                  THEN TipHeldAt(i - 1) ELSE TipHeldAt(i)
           /\ ~DropPrecedes(i) => ~TipHeldAt(i)

(* changeTip always on a pipette that starts without a tip: the first tip  *)
(* change is a bare pick-up, the second a drop and a pick-up               *)
C34_Witness ==
    /\ Succeeded
    /\ ~prevRobotState.tips
    /\ args.changeTip = "always"
    /\ Cardinality(Chunks) >= 2
    /\ IsCommand(1, "pickUpTip")
    /\ Cardinality(DropTips) = Cardinality(PickUps) - 1
    /\ DropTips # {}

---------------------------------------------------------------------------
(* A call that gets as far as mixing: known pipette, a per-well volume     *)
(* that fits a chunk, something to distribute, a mix asked for             *)
ReachesMix ==
    /\ PipetteExists(makeContext, args.pipette)
    /\ args.volume <= maxVolumePerChunk(args, makeContext)
    /\ args.destWells # <<>>
    /\ args.mixBeforeAspirate.set

MixAspirates(k) ==
    {i \in InChunk(k) : /\ IsCommand(i, "aspirate")
                        /\ i \notin MainAspirates(k)}

(* C35: the chunk-capacity check does not cover the mix volume.  A mix     *)
(* volume up to the pipette's max volume is accepted, also above           *)
(* pipetteMaxVolume - disposalVolume: the call is not failed for volume    *)
(* and, given a tip, succeeds with every mix aspirate at the mix volume.   *)
(* A mix volume above the pipette's max volume fails the first mix         *)
(* aspirate with PIPETTE_VOLUME_EXCEEDED: Failure with that one error and  *)
(* zero instructions, whatever tip handling had been compiled.             *)
C35_MixVolume ==
    (Done /\ ReachesMix) =>
        IF args.mixBeforeAspirate.volume <= makeContext.maxVolume
        THEN /\ Failed => result.errors = <<Error("INSUFFICIENT_TIPS")>>
             /\ Failed <=> (args.changeTip = "never" /\ ~prevRobotState.tips)
             /\ Succeeded =>
                    \A k \in Chunks :
                        /\ Cardinality(MixAspirates(k)) =
                               args.mixBeforeAspirate.times
                        /\ \A i \in MixAspirates(k) :
                               commands[i].volume =
                                   args.mixBeforeAspirate.volume
        ELSE /\ Failed
             /\ result.commands = <<>>
             /\ Len(result.errors) = 1
             /\ robotState.tips =>
                    /\ result.errors = <<Error("PIPETTE_VOLUME_EXCEEDED")>>
                    /\ commandCreators[cursor].step = "mixAspirate"
                    /\ commandCreators[cursor].chunk = 1
                    /\ \A i \in DOMAIN commands : origin[i].step = "tip"
             /\ ~robotState.tips =>
                    result.errors = <<Error("INSUFFICIENT_TIPS")>>

(* a mix of the pipette's whole capacity next to a disposal volume: more   *)
(* than a chunk may carry, and the call succeeds                           *)
C35_Witness ==
    /\ Succeeded
    /\ ReachesMix
    /\ args.mixBeforeAspirate.volume = makeContext.maxVolume
    /\ disposalVolumeOf(args) > 0
    /\ args.mixBeforeAspirate.volume > maxVolumePerChunk(args, makeContext)
    /\ Cardinality(Chunks) >= 2

(* a mix above the capacity after a compiled tip change: the call fails    *)
(* and hands back nothing                                                  *)
MixExceededAfterTipChange ==
    /\ Failed
    /\ ReachesMix
    /\ args.mixBeforeAspirate.volume > makeContext.maxVolume
    /\ result.errors = <<Error("PIPETTE_VOLUME_EXCEEDED")>>
    /\ commands # <<>>
    /\ result.commands = <<>>

---------------------------------------------------------------------------
(* SelectionRect under the mouse *)

(* the rectangle, corners in order, of the point where the button went     *)
(* down and the last point the mouse was dragged to                        *)
DragRect ==
    [x0 |-> Min(mouse.start[1], mouse.last[1]),
     x1 |-> Max(mouse.start[1], mouse.last[1]),
     y0 |-> Min(mouse.start[2], mouse.last[2]),
     y1 |-> Max(mouse.start[2], mouse.last[2])]

Calls(callback) == {i \in 1..Len(called') : called'[i].callback = callback}

(* the step is the handling of a mouse event of the given name *)
Handled(event) == mounted' = mounted /\ mouse'.event = event

C36_Initial == positions = NullPositions /\ ~isSelecting

C36_Invariant ==
    /\ isSelecting = (positions # NullPositions)
    /\ positions # NullPositions =>
          /\ positions.xStart = mouse.start[1]
          /\ positions.yStart = mouse.start[2]

C36_Step ==
    /\ Handled("mousedown") =>
          /\ isSelecting'
          /\ positions' = [xStart |-> mouse'.start[1], xDynamic |-> mouse'.start[1],
                           yStart |-> mouse'.start[2], yDynamic |-> mouse'.start[2]]
    /\ (Handled("mousemove") /\ mounted /\ isSelecting) =>
          /\ isSelecting'
          /\ positions' = [positions EXCEPT !.xDynamic = mouse'.last[1],
                                            !.yDynamic = mouse'.last[2]]
    /\ (Handled("mousemove") /\ ~isSelecting) =>
          UNCHANGED <<positions, isSelecting>>
    /\ (Handled("mouseup") /\ mounted) =>
          /\ ~isSelecting'
          /\ positions' = NullPositions

(* C36: a SelectionRect starts with no positions and not selecting; at     *)
(* every moment, whatever mouse-downs, mouse-moves and mouse-ups came, it  *)
(* is selecting exactly when its positions are set; a mouse-down sets      *)
(* both, start and dynamic point at the event's point; a drag moves only   *)
(* the dynamic point, the start point stays where the button went down; a  *)
(* mouse-up handled by the mounted component resets both.                  *)
C36_SelectionState ==
    /\ C36_Initial
    /\ []C36_Invariant
    /\ [][C36_Step]_vars

(* a mounted component in a drag that has left the start point both ways *)
C36_Witness ==
    /\ mounted
    /\ isSelecting
    /\ positions.xDynamic # positions.xStart
    /\ positions.yDynamic # positions.yStart
    /\ called # <<>>

C37_Step ==
    /\ Calls("onSelectionMove") # {} =>
          Handled("mousemove") /\ mouse.pressed
    /\ Calls("onSelectionDone") # {} =>
          /\ Handled("mouseup")
          /\ mouse.pressed
          /\ \A i \in Calls("onSelectionDone") :
                /\ called'[i].rect = DragRect
                /\ called'[i].rect.x0 <= called'[i].rect.x1
                /\ called'[i].rect.y0 <= called'[i].rect.y1
          /\ Cardinality(Calls("onSelectionDone")) = 1
    /\ (Handled("mouseup") /\ ~mouse.pressed) => called' = <<>>

(* C37: onSelectionMove is invoked only for a mouse-move that comes        *)
(* between a mouse-down and the next mouse-up; onSelectionDone is invoked  *)
(* only on the first mouse-up after a mouse-down, once, with the           *)
(* rectangle, corners in order, of the start point and the last drag       *)
(* point; a mouse-up with no selection in progress invokes no callback.    *)
C37_Callbacks == [][C37_Step]_vars

(* C38: once the component is unmounted, its handlers are not bound to the *)
(* document any more, and no document mouse event makes it invoke a        *)
(* callback.                                                               *)
C38_Unregistered ==
    ~mounted => /\ listeners = {}
                /\ called = <<>>

---------------------------------------------------------------------------
(* SelectablePlate under the callbacks of its SelectionRect *)

(* the wells a rectangle selects: the wells it touches, or, with an        *)
(* 8-channel pipette, the top well of every column that holds a touched    *)
(* well the pipette can reach                                              *)
SelectedBy(rect) ==
    LET hit == getCollidingWells(rect)
    IN  IF pipetteChannels = 8
        THEN {<<w[1], 1>> : w \in {h \in hit : containerType = "96-flat"}}
        ELSE hit

C39_Step ==
    /\ \A i \in Calls("onSelectionDone") :
          /\ selectedWells' = IF called'[i].shiftKey
                              THEN selectedWells \ SelectedBy(called'[i].rect)
                              ELSE selectedWells \cup SelectedBy(called'[i].rect)
          /\ highlightedWells' = {}
          /\ reported' = <<selectedWells'>>
    /\ \A i \in Calls("onSelectionMove") :
          called'[i].shiftKey => highlightedWells' = highlightedWells

(* C39: a completed drag leaves the selection as the old selection plus    *)
(* the wells of the rectangle, or, with the shift key held, minus them,    *)
(* the wells being those the rectangle touches (with an 8-channel pipette  *)
(* the primary well of each touched well set); it empties                  *)
(* highlightedWells and reports exactly the new selection, so what the     *)
(* parent was told last is the component's selection; a selection move     *)
(* with the shift key held leaves highlightedWells as it was.              *)
C39_Selection ==
    /\ [](reported # <<>> => reported[1] = selectedWells)
    /\ [][C39_Step]_vars

====
